---- MODULE Spec2Model ----
(***************************************************************************)
(* SimplicityPress: the build pipeline (core/build.py), the configuration  *)
(* loader (core/config.py), content discovery (core/content.py) and the    *)
(* API entry point (api.py), as a state machine.                           *)
(*                                                                         *)
(* Text is modelled at the level the code inspects it: a tag name is a     *)
(* sequence of one-character strings, a site URL is a sequence of chunks   *)
(* (a whitespace character, a "/" or a block of other characters), a path  *)
(* is the sequence of its segments and a URL path the sequence of the      *)
(* pieces between its slashes.  Dictionaries are functions from keys to    *)
(* values.                                                                 *)
(***************************************************************************)
EXTENDS Integers, Sequences, FiniteSets, TLC

VARIABLES
    default_config,   \* the module-level default tree (default_config.py)
    call,             \* the arguments and the site of the running call
    config,           \* the Config object build_site is given
    pc,               \* position of the call
    error,            \* what the call raised ("" when nothing)
    posts,            \* build_site's local: posts
    pages,            \* build_site's local: pages
    events,           \* the stages handed to progress_cb, in order
    first_pass,       \* the output directory a first build_site left, once
                      \* build_site runs again on the same Config
    written,          \* files written by this call: path -> content
    sitemap_entries,  \* build_site's local: sitemap_entries
    fn_name,          \* the function called on its own ("" when none)
    fn_args,          \* its arguments
    fn_result         \* None while it runs, then what it returned or raised

\* the state of a run of the function called on its own
fn_vars == <<fn_name, fn_args, fn_result>>

\* the state of a build
build_vars == <<default_config, call, config, pc, error, posts, pages, events,
                written, sitemap_entries, first_pass>>

vars == <<build_vars, first_pass, fn_vars>>

----------------------------------------------------------------------------
(* Bounds of the model *)

\* the largest number of post files in content/posts
MaxPosts == 2

----------------------------------------------------------------------------
(* Generic helpers *)

Min(a, b) == IF a < b THEN a ELSE b
Max(a, b) == IF a > b THEN a ELSE b

\* sequences over S of length at most n
SeqsUpTo(S, n) == UNION {[1..k -> S] : k \in 0..n}

\* dict.get(key, default)
Get(table, key, dflt) == IF key \in DOMAIN table THEN table[key] ELSE dflt

\* math.ceil(n / d) for integers n and d # 0
Ceil(n, d) == IF d > 0 THEN -((-n) \div d) ELSE -(n \div (-d))

\* Python's seq[start:end] for 0 <= start and any end (negative counts from the end)
Slice(seq, start, end) ==
    LET n  == Len(seq)
        e  == IF end < 0 THEN Max(0, n + end) ELSE Min(end, n)
        s  == Min(start, n)
    IN  IF e <= s THEN <<>> ELSE SubSeq(seq, s + 1, e)

\* the sequence p begins the sequence q
IsPrefix(p, q) == Len(p) <= Len(q) /\ SubSeq(q, 1, Len(p)) = p

RECURSIVE Concat(_)
\* "".join(parts)
Concat(parts) == IF parts = <<>> THEN "" ELSE Head(parts) \o Concat(Tail(parts))

RECURSIVE SelectSeqBy(_, _)
\* a path with its empty segments dropped: Path(a) / "" / b is a / b
SelectSeqBy(seq, drop) ==
    IF seq = <<>> THEN <<>>
    ELSE IF Head(seq) \in drop THEN SelectSeqBy(Tail(seq), drop)
         ELSE <<Head(seq)>> \o SelectSeqBy(Tail(seq), drop)

----------------------------------------------------------------------------
(* Characters *)

Whitespace == {" "}

\* code points of the characters the model's texts are made of
CodePoint == (" " :> 32) @@ ("!" :> 33) @@ ("-" :> 45) @@ ("/" :> 47) @@
             [d \in {ToString(i) : i \in 0..9} |->
                 48 + (CHOOSE i \in 0..9 : ToString(i) = d)] @@
             ("A" :> 65) @@ ("B" :> 66) @@ ("_" :> 95) @@ ("a" :> 97) @@
             ("b" :> 98) @@ ("c" :> 99) @@ ("d" :> 100) @@ ("e" :> 101) @@
             ("f" :> 102) @@ ("g" :> 103) @@ ("h" :> 104) @@ ("i" :> 105) @@
             ("j" :> 106) @@ ("k" :> 107) @@ ("l" :> 108) @@ ("m" :> 109) @@
             ("n" :> 110) @@ ("o" :> 111) @@ ("p" :> 112) @@ ("q" :> 113) @@
             ("r" :> 114) @@ ("s" :> 115) @@ ("t" :> 116) @@ ("u" :> 117) @@
             ("v" :> 118) @@ ("w" :> 119) @@ ("x" :> 120) @@ ("y" :> 121) @@
             ("z" :> 122)

\* str.lower() on one character
LowerChar(c) == CASE c = "A" -> "a" [] c = "B" -> "b" [] OTHER -> c

\* the characters re.sub(r"[^a-z0-9_-]", "", ...) keeps
SlugChars ==
    {c \in DOMAIN CodePoint :
        \/ CodePoint[c] \in 97..122
        \/ CodePoint[c] \in 48..57
        \/ c \in {"_", "-"}}

RECURSIVE LStrip(_, _)
\* str.lstrip(chars)
LStrip(s, chars) ==
    IF s # <<>> /\ Head(s) \in chars THEN LStrip(Tail(s), chars) ELSE s

RECURSIVE RStrip(_, _)
\* str.rstrip(chars)
RStrip(s, chars) ==
    IF s # <<>> /\ s[Len(s)] \in chars THEN RStrip(SubSeq(s, 1, Len(s) - 1), chars)
    ELSE s

\* str.strip()
Strip(s) == RStrip(LStrip(s, Whitespace), Whitespace)

\* str.lower()
Lower(s) == [i \in 1..Len(s) |-> LowerChar(s[i])]

RECURSIVE LexLess(_, _)
\* a < b for two strings (by code point, a proper prefix first)
LexLess(a, b) ==
    IF b = <<>> THEN FALSE
    ELSE IF a = <<>> THEN TRUE
    ELSE IF CodePoint[Head(a)] # CodePoint[Head(b)]
         THEN CodePoint[Head(a)] < CodePoint[Head(b)]
         ELSE LexLess(Tail(a), Tail(b))

----------------------------------------------------------------------------
(* Paths in configuration values (build.py, search_index.py, feeds.py) *)

\* A text is the sequence of its chunks: a "/", a "\\", a ".", a space or a
\* block of other characters.  A configuration value is absent (None), a
\* string or, for a value of another type, the number 5.
RawNone      == [kind |-> "none"]
RawStr(text) == [kind |-> "str", text |-> text]
RawInt       == [kind |-> "int", text |-> <<"5">>]

\* str(value or default) for a value and a default text
StrOr(raw, default) ==
    IF raw.kind = "none" \/ (raw.kind = "str" /\ raw.text = <<>>) THEN default
    ELSE raw.text

RECURSIVE SplitSlash(_, _, _)
\* text.split("/"): the segments, each the sequence of its chunks
SplitSlash(text, i, current) ==
    IF i > Len(text) THEN <<current>>
    ELSE IF text[i] = "/" THEN <<current>> \o SplitSlash(text, i + 1, <<>>)
    ELSE SplitSlash(text, i + 1, Append(current, text[i]))

\* Path(text).parts without the root: empty and "." segments vanish
PathSegments(text) ==
    SelectSeq(SplitSlash(text, 1, <<>>), LAMBDA s : s # <<>> /\ s # <<".">>)

\* the parts as strings
PathParts(text) ==
    LET segs == PathSegments(text) IN [k \in 1..Len(segs) |-> Concat(segs[k])]

\* Path(text).is_absolute() on a POSIX system
IsAbsolute(text) == text # <<>> /\ text[1] = "/"

\* any(part == ".." for part in path.parts)
HasDotDot(text) == \E k \in DOMAIN PathParts(text) : PathParts(text)[k] = ".."

\* text.replace("\\", "/")
ReplaceBackslash(text) == [k \in 1..Len(text) |-> IF text[k] = "\\" THEN "/" ELSE text[k]]

RECURSIVE DropDotSlash(_)
\* while text.startswith("./"): text = text[2:]
DropDotSlash(text) ==
    IF Len(text) >= 2 /\ text[1] = "." /\ text[2] = "/"
    THEN DropDotSlash(SubSeq(text, 3, Len(text)))
    ELSE text

\* a resolved path, or the error raised instead
PathOk(segs) ==
    [ok |-> TRUE, error |-> "", segments |-> segs,
     path |-> [k \in 1..Len(segs) |-> Concat(segs[k])]]
PathError(why) == [ok |-> FALSE, error |-> why, segments |-> <<>>, path |-> <<>>]

\* _sanitize_relative_path testing for ".." before the backslashes are replaced
_sanitize_relative_path_late(raw, default) ==
    IF raw.kind = "int" THEN PathError("search_path_type")
    ELSE LET coerced == IF raw.kind = "none" \/ Strip(raw.text) = <<>>
                        THEN default ELSE Strip(raw.text)
             cut     == LStrip(DropDotSlash(ReplaceBackslash(coerced)), {"/"})
             text    == IF cut = <<>> THEN default ELSE cut
         IN  IF IsAbsolute(text) THEN PathError("search_path_absolute")
             ELSE IF HasDotDot(coerced) THEN PathError("search_path_traversal")
             ELSE IF PathParts(text) = <<>> THEN PathOk(PathSegments(default))
             ELSE PathOk(PathSegments(text))

\* _sanitize_relative_path with _coerce_path_string
_sanitize_relative_path(raw, default) ==
    IF raw.kind = "int" THEN PathError("search_path_type")
    ELSE LET coerced == IF raw.kind = "none" \/ Strip(raw.text) = <<>>
                        THEN default ELSE Strip(raw.text)
             cut     == LStrip(DropDotSlash(ReplaceBackslash(coerced)), {"/"})
             text    == IF cut = <<>> THEN default ELSE cut
         IN  IF IsAbsolute(text) THEN PathError("search_path_absolute")
             ELSE IF HasDotDot(text) THEN PathError("search_path_traversal")
             ELSE IF PathParts(text) = <<>> THEN PathOk(PathSegments(default))
             ELSE PathOk(PathSegments(text))

\* build_site, lines 129-139: the sitemap output path
SitemapOutput(raw) ==
    LET stripped == Strip(StrOr(raw, <<"sitemap.xml">>))
        text     == IF stripped = <<>> THEN <<"sitemap.xml">> ELSE stripped
    IN  IF IsAbsolute(text) THEN PathError("sitemap_output_absolute")
        ELSE IF HasDotDot(text) THEN PathError("sitemap_output_traversal")
        ELSE IF PathParts(text) = <<>> THEN PathOk(<<<<"sitemap.xml">>>>)
        ELSE PathOk(PathSegments(text))

\* _ensure_relative_output on str(value or default)
_ensure_relative_output(raw, default) ==
    LET text == Strip(StrOr(raw, default))
    IN  IF PathParts(text) = <<>> /\ ~IsAbsolute(text) THEN PathError("feed_output_empty")
        ELSE IF IsAbsolute(text) THEN PathError("feed_output_absolute")
        ELSE IF HasDotDot(text) THEN PathError("feed_output_traversal")
        ELSE PathOk(PathSegments(text))

----------------------------------------------------------------------------
(* Stages (models.py) *)

LOADING_CONFIG      == "loading_config"
DISCOVERING_CONTENT == "discovering_content"
RENDERING_TEMPLATES == "rendering_templates"
COPYING_STATIC      == "copying_static"
DONE                == "done"

Stage == {LOADING_CONFIG, DISCOVERING_CONTENT, RENDERING_TEMPLATES,
          COPYING_STATIC, DONE}

INDEX_FILENAME == "index.html"

----------------------------------------------------------------------------
(* Configuration (default_config.py, config.py) *)

\* the built-in default tree
DefaultConfigTree ==
    ("site"    :> ("url" :> <<>>)) @@
    ("paths"   :> ("output_dir" :> "output")) @@
    ("build"   :> (("posts_per_page" :> 10) @@ ("include_drafts" :> FALSE))) @@
    ("search"  :> (("enabled" :> FALSE) @@
                   ("output_dir" :> RawStr(<<"assets", "/", "search">>)) @@
                   ("page_path" :> RawStr(<<"search", "/", "index.html">>)))) @@
    ("sitemap" :> (("enabled" :> FALSE) @@ ("output" :> RawStr(<<"sitemap.xml">>)) @@
                   ("exclude_paths" :> <<>>) @@
                   ("include_tags" :> TRUE) @@
                   ("include_pages" :> TRUE) @@ ("include_posts" :> TRUE) @@
                   ("include_index" :> TRUE))) @@
    ("feeds"   :> (("enabled" :> FALSE) @@ ("rss_enabled" :> TRUE) @@
                   ("atom_enabled" :> TRUE) @@
                   ("rss_output" :> RawStr(<<"rss.xml">>)) @@
                   ("atom_output" :> RawStr(<<"atom.xml">>))))

\* _merge_dicts on two tables of scalars
MergeTables(base, override) ==
    [k \in DOMAIN base \cup DOMAIN override |->
        IF k \in DOMAIN override THEN override[k] ELSE base[k]]

\* _merge_dicts(default_config, user_config): every value at the top level of
\* both trees is a table
_merge_dicts(base, override) ==
    [k \in DOMAIN base \cup DOMAIN override |->
        IF k \in DOMAIN override
        THEN IF k \in DOMAIN base THEN MergeTables(base[k], override[k])
             ELSE override[k]
        ELSE base[k]]

\* result[key] of _merge_dicts is the very object base[key] (no copy) exactly
\* when the override has no such key: dict(base) copies one level only
SharesDefault(override, key) == key \notin DOMAIN override

\* load_config for an existing site root with a parseable site.toml and the
\* required directories: the Config it returns.  build_shared tells that
\* config.build is the dictionary object default_config["build"] itself.
load_config(defaults, user_config) ==
    LET merged == _merge_dicts(defaults, user_config)
    IN  [ site         |-> Get(merged, "site", <<>>),
          build        |-> Get(merged, "build", <<>>),
          build_shared |-> SharesDefault(user_config, "build"),
          output_dir   |-> Get(Get(merged, "paths", <<>>), "output_dir", "output") ]

\* the attributes build_site reads on its config argument that the Config
\* class does not declare: config.sitemap and config.search.  The Config
\* load_config returns has neither; a caller of build_site can set them on
\* the object.
HasAttr(cfg, name) == name \in DOMAIN cfg

\* the Config after the caller has set the attributes names, each to the
\* table of that name in the merged tree
SetAttributes(cfg, merged, names) == [name \in names |-> Get(merged, name, <<>>)] @@ cfg

----------------------------------------------------------------------------
(* Content discovery (content.py, frontmatter.py) *)

\* An optional value: <<>> is None, <<x>> is x
None == <<>>
Some(x) == <<x>>

\* the one-to-one functions from 1..n to 1..n
Orderings(n) == {f \in [1..n -> 1..n] : \A i, j \in 1..n : f[i] = f[j] => i = j}

\* A post file is what discover_content looks at in it:
\*   stem        the name of the file without ".md"
\*   toml_ok     the front-matter block parses as TOML
\*   has_title   metadata.get("title") is truthy
\*   date_state  "ok", "missing" (no date) or "invalid" (fromisoformat fails)
\*   date        the parsed date, when date_state = "ok"
\*   tags_ok     tags is absent, a string or a list
\*   tags        the normalized tag list, when tags_ok
\*   draft       bool(metadata.get("draft", False))
\* The files of content/posts are p1.md, p2.md, ... and those of
\* content/pages about1.md, about2.md, ...; glob("*.md") lists them in an
\* order of its own.
PostStem(i) == "p" \o ToString(i)
PageStem(i) == "about" \o ToString(i)

\* the files of a directory as glob lists them: files[i] is listed i-th and
\* is the file of name stems[i]
Listed(files, stems) == [i \in 1..Len(files) |-> [stem |-> stems[i]] @@ files[i]]

\* every listing of every directory of a set
PostListings(dirs) ==
    UNION {{Listed(files, [i \in 1..Len(files) |-> PostStem(order[i])]) :
               order \in Orderings(Len(files))} : files \in dirs}
PageListings(dirs) ==
    UNION {{Listed(files, [i \in 1..Len(files) |-> PageStem(order[i])]) :
               order \in Orderings(Len(files))} : files \in dirs}

\* slug = metadata.get("slug") or path.stem, for a page file: the name of
\* the file when the front matter has no slug or an empty one
PageSlug(file) ==
    IF "slug" \in DOMAIN file /\ file.slug # "" THEN file.slug ELSE file.stem

\* one post file through the body of the posts loop: the Post or the
\* error; slug = metadata.get("slug") or path.stem (line 57)
ParsePost(file) ==
    LET slug == IF "slug" \in DOMAIN file /\ file.slug # "" THEN file.slug
                ELSE file.stem
    IN
    IF ~file.toml_ok THEN [ok |-> FALSE, error |-> "front_matter_toml", item |-> <<>>]
    ELSE IF ~file.has_title THEN [ok |-> FALSE, error |-> "post_title", item |-> <<>>]
    ELSE IF file.date_state = "missing"
         THEN [ok |-> FALSE, error |-> "post_date_missing", item |-> <<>>]
    ELSE IF file.date_state # "ok"
         THEN [ok |-> FALSE, error |-> "post_date_invalid", item |-> <<>>]
    ELSE IF ~file.tags_ok THEN [ok |-> FALSE, error |-> "post_tags", item |-> <<>>]
    ELSE [ok |-> TRUE, error |-> "",
          item |-> [slug  |-> slug,
                    source_path |-> file.stem,
                    date  |-> file.date,
                    tags  |-> file.tags,
                    draft |-> file.draft,
                    url   |-> <<"posts", slug, "">>]]

\* the pages loop appending a page of the fields the Page class declares,
\* an unparsable page date taken for no date
ParsePage_lenient(file) ==
    IF ~file.toml_ok THEN [ok |-> FALSE, error |-> "front_matter_toml", item |-> <<>>]
    ELSE IF ~file.has_title THEN [ok |-> FALSE, error |-> "page_title", item |-> <<>>]
    ELSE [ok |-> TRUE, error |-> "",
          item |-> [slug |-> PageSlug(file), url |-> <<PageSlug(file), "">>]]

\* one page file through the body of the pages loop: the checks of the
\* front matter, then Page(..., date=, show_in_nav=, nav_title=, nav_order=),
\* which raises TypeError because the Page class declares title, slug,
\* content_html, source_path and url only.  No page file gets through.
ParsePage(file) ==
    IF ~file.toml_ok THEN [ok |-> FALSE, error |-> "front_matter_toml", item |-> <<>>]
    ELSE IF ~file.has_title THEN [ok |-> FALSE, error |-> "page_title", item |-> <<>>]
    ELSE IF file.date_state = "invalid"
         THEN [ok |-> FALSE, error |-> "page_date_invalid", item |-> <<>>]
    ELSE [ok |-> FALSE, error |-> "TypeError", item |-> <<>>]

RECURSIVE DiscoverPosts(_, _, _)
\* the posts loop from file i on: stops at the first file that raises
DiscoverPosts(files, i, acc) ==
    IF i > Len(files) THEN [ok |-> TRUE, error |-> "", items |-> acc]
    ELSE LET r == ParsePost(files[i])
         IN  IF r.ok THEN DiscoverPosts(files, i + 1, Append(acc, r.item))
             ELSE [ok |-> FALSE, error |-> r.error, items |-> <<>>]

RECURSIVE DiscoverPages(_, _, _)
\* the pages loop from file i on
DiscoverPages(files, i, acc) ==
    IF i > Len(files) THEN [ok |-> TRUE, error |-> "", items |-> acc]
    ELSE LET r == ParsePage(files[i])
         IN  IF r.ok THEN DiscoverPages(files, i + 1, Append(acc, r.item))
             ELSE [ok |-> FALSE, error |-> r.error, items |-> <<>>]

\* discover_content: all posts, then all pages
discover_content(post_files, page_files) ==
    LET ps == DiscoverPosts(post_files, 1, <<>>)
        gs == DiscoverPages(page_files, 1, <<>>)
    IN  IF ~ps.ok THEN [ok |-> FALSE, error |-> ps.error, posts |-> <<>>, pages |-> <<>>]
        ELSE IF ~gs.ok THEN [ok |-> FALSE, error |-> gs.error, posts |-> <<>>, pages |-> <<>>]
        ELSE [ok |-> TRUE, error |-> "", posts |-> ps.items, pages |-> gs.items]

----------------------------------------------------------------------------
(* build.py: the helpers of build_site *)

\* the draft filter left out
FilterDrafts_none(ps, include_drafts) == ps

\* the draft filter applied whatever include_drafts says
FilterDrafts_always(ps, include_drafts) == SelectSeq(ps, LAMBDA p : ~p.draft)

\* posts = [p for p in posts if not p.draft] unless include_drafts
FilterDrafts(ps, include_drafts) ==
    IF include_drafts THEN ps ELSE SelectSeq(ps, LAMBDA p : ~p.draft)

\* the sort that puts a post before the posts of the same date
InsertByDateDesc_unstable(sorted, p) ==
    LET later == {j \in 1..Len(sorted) : sorted[j].date <= p.date}
        at    == IF later = {} THEN Len(sorted) + 1
                 ELSE CHOOSE j \in later : \A k \in later : j <= k
    IN  SubSeq(sorted, 1, at - 1) \o <<p>> \o SubSeq(sorted, at, Len(sorted))

\* where a stable descending sort puts p in an already sorted list: before
\* the first element with a smaller date
InsertByDateDesc(sorted, p) ==
    LET later == {j \in 1..Len(sorted) : sorted[j].date < p.date}
        at    == IF later = {} THEN Len(sorted) + 1
                 ELSE CHOOSE j \in later : \A k \in later : j <= k
    IN  SubSeq(sorted, 1, at - 1) \o <<p>> \o SubSeq(sorted, at, Len(sorted))

RECURSIVE SortByDateDescFrom(_, _, _)
SortByDateDescFrom(ps, i, acc) ==
    IF i > Len(ps) THEN acc
    ELSE SortByDateDescFrom(ps, i + 1, InsertByDateDesc(acc, ps[i]))

\* sorted(posts, key=lambda p: p.date, reverse=True)
SortByDateDesc(ps) == SortByDateDescFrom(ps, 1, <<>>)

\* tag_index.setdefault(tag, []).append(post) on a dictionary kept as the
\* sequence of its items in insertion order
TagIndexAdd(index, tag, post) ==
    IF \E j \in 1..Len(index) : index[j].name = tag
    THEN [j \in 1..Len(index) |->
            IF index[j].name = tag
            THEN [index[j] EXCEPT !.posts = Append(@, post)]
            ELSE index[j]]
    ELSE Append(index, [name |-> tag, posts |-> <<post>>])

RECURSIVE TagIndexAddAll(_, _, _, _)
TagIndexAddAll(index, tags, i, post) ==
    IF i > Len(tags) THEN index
    ELSE TagIndexAddAll(TagIndexAdd(index, tags[i], post), tags, i + 1, post)

RECURSIVE BuildTagIndexFrom(_, _, _)
BuildTagIndexFrom(ps, i, index) ==
    IF i > Len(ps) THEN index
    ELSE BuildTagIndexFrom(ps, i + 1, TagIndexAddAll(index, ps[i].tags, 1, ps[i]))

\* _build_tag_index
_build_tag_index(ps) == BuildTagIndexFrom(ps, 1, <<>>)

\* _slugify_tag: strip, lower, " " -> "-", drop what is not [a-z0-9_-]
_slugify_tag(tag) ==
    LET lowered  == Lower(Strip(tag))
        replaced == [i \in 1..Len(lowered) |->
                        IF lowered[i] = " " THEN "-" ELSE lowered[i]]
    IN  Concat(SelectSeq(replaced, LAMBDA c : c \in SlugChars))

\* the characters of the segments URLs are made of: the fixed names, the
\* post and page slugs, the page numbers and the tag slugs
SegmentText ==
    ("" :> <<>>) @@
    ("page" :> <<"p", "a", "g", "e">>) @@
    ("posts" :> <<"p", "o", "s", "t", "s">>) @@
    ("tags" :> <<"t", "a", "g", "s">>) @@
    ("search" :> <<"s", "e", "a", "r", "c", "h">>) @@
    ("find" :> <<"f", "i", "n", "d">>) @@
    ("static" :> <<"s", "t", "a", "t", "i", "c">>) @@
    ("a" :> <<"a">>) @@ ("b-b" :> <<"b", "-", "b">>) @@
    [n \in {ToString(i) : i \in 1..9} |-> <<n>>] @@
    [stem \in {PostStem(i) : i \in 1..9} |->
        <<"p", ToString(CHOOSE i \in 1..9 : PostStem(i) = stem)>>] @@
    [stem \in {PageStem(i) : i \in 1..9} |->
        <<"a", "b", "o", "u", "t", ToString(CHOOSE i \in 1..9 : PageStem(i) = stem)>>]

RECURSIVE UrlText(_)
\* the characters of a URL path.  A path is kept as the pieces its text
\* has between the slashes, the leading one left out: <<"">> is "/",
\* <<"a", "b", "">> is "/a/b/" and <<"a", "b">> is "/a/b".
UrlText(path) ==
    IF path = <<>> THEN <<>>
    ELSE <<"/">> \o SegmentText[Head(path)] \o UrlText(Tail(path))

\* where a stable sort by lower-cased name puts an item: before the first
\* item with a greater key
InsertByLowerName(sorted, item) ==
    LET after == {j \in 1..Len(sorted) :
                     LexLess(Lower(item.name), Lower(sorted[j].name))}
        at    == IF after = {} THEN Len(sorted) + 1
                 ELSE CHOOSE j \in after : \A k \in after : j <= k
    IN  SubSeq(sorted, 1, at - 1) \o <<item>> \o SubSeq(sorted, at, Len(sorted))

RECURSIVE SortByLowerNameFrom(_, _, _)
SortByLowerNameFrom(items, i, acc) ==
    IF i > Len(items) THEN acc
    ELSE SortByLowerNameFrom(items, i + 1, InsertByLowerName(acc, items[i]))

\* tags_data: sorted(tag_index.items(), key=lambda kv: kv[0].lower()), each
\* with its slug, URL and count
TagsData(index) ==
    LET sorted == SortByLowerNameFrom(index, 1, <<>>)
    IN  [j \in 1..Len(sorted) |->
            [name  |-> sorted[j].name,
             slug  |-> _slugify_tag(sorted[j].name),
             url   |-> <<"tags", _slugify_tag(sorted[j].name), "">>,
             count |-> Len(sorted[j].posts)]]

\* tag_index[tag_name]
TagPosts(index, name) ==
    (CHOOSE e \in {index[j] : j \in 1..Len(index)} : e.name = name).posts

\* posts_per_page = int(config.build.get("posts_per_page", 10)) or 10
PostsPerPage(build) ==
    LET v == Get(build, "posts_per_page", 10) IN IF v = 0 THEN 10 ELSE v

\* total_pages = max(1, ceil(len(posts) / posts_per_page))
TotalPages(n, per_page) == Max(1, Ceil(n, per_page))

\* feed_items = int(config.build.get("feed_items", 20)) or 20
FeedItems(build) ==
    LET v == Get(build, "feed_items", 20) IN IF v = 0 THEN 20 ELSE v

\* Path(a) / b / c: empty segments vanish
JoinPath(segments) == SelectSeqBy(segments, {""})

----------------------------------------------------------------------------
(* build.py: what build_site renders *)

\* a file written by render_to_file(env, template, context, target)
Rendered(target, template, context) ==
    [path |-> target, content |-> [template |-> template, context |-> context]]

\* config.paths.output_dir / a / b / ...
OutPath(cfg, segments) == <<cfg.output_dir>> \o JoinPath(segments)

\* one pass of the "Home and pagination pages" loop
IndexPage(cfg, ps, page_number) ==
    LET per_page    == PostsPerPage(cfg.build)
        total_pages == TotalPages(Len(ps), per_page)
        start       == (page_number - 1) * per_page
        end         == start + per_page
        url         == IF page_number = 1 THEN <<"">>
                       ELSE <<"page", ToString(page_number), "">>
        target      == IF page_number = 1 THEN <<INDEX_FILENAME>>
                       ELSE <<"page", ToString(page_number), INDEX_FILENAME>>
        prev_url    == IF page_number > 1
                       THEN IF page_number = 2 THEN Some(<<"">>)
                            ELSE Some(<<"page", ToString(page_number - 1), "">>)
                       ELSE None
        next_url    == IF page_number < total_pages
                       THEN Some(<<"page", ToString(page_number + 1), "">>)
                       ELSE None
    IN  Rendered(OutPath(cfg, target), "index.html",
                 [posts       |-> Slice(ps, start, end),
                  page_number |-> page_number,
                  total_pages |-> total_pages,
                  prev_url    |-> prev_url,
                  next_url    |-> next_url,
                  url         |-> url])

\* the files of the "Home and pagination pages" loop, in order
IndexPages(cfg, ps) ==
    [n \in 1..TotalPages(Len(ps), PostsPerPage(cfg.build)) |-> IndexPage(cfg, ps, n)]

\* the files of the "Individual post pages" loop
PostPages(cfg, ps) ==
    [i \in 1..Len(ps) |->
        Rendered(OutPath(cfg, <<"posts", ps[i].slug, INDEX_FILENAME>>), "post.html",
                 [post |-> ps[i]])]

\* the files of the "Static pages" loop
StaticPages(cfg, gs) ==
    [i \in 1..Len(gs) |->
        Rendered(OutPath(cfg, <<gs[i].slug, INDEX_FILENAME>>), "page.html",
                 [page |-> gs[i]])]

\* the tags index
TagsIndexPage(cfg, index) ==
    Rendered(OutPath(cfg, <<"tags", INDEX_FILENAME>>), "tags.html",
             [tags |-> TagsData(index)])

\* the files of the "Tag detail pages" loop, in the order of tags_data
TagPages(cfg, index) ==
    LET data == TagsData(index)
    IN  [j \in 1..Len(data) |->
            Rendered(OutPath(cfg, <<"tags", data[j].slug, INDEX_FILENAME>>), "tag.html",
                     [tag      |-> data[j].name,
                      tag_slug |-> data[j].slug,
                      posts    |-> TagPosts(index, data[j].name)])]

\* the legacy feed: posts[:feed_items]
FeedFile(cfg, ps) ==
    Rendered(OutPath(cfg, <<"feed.xml">>), "feed.xml",
             [posts |-> Slice(ps, 0, FeedItems(cfg.build))])

\* bool(config.search.get("enabled", False)): a SearchAssetsBuilder exists
SearchEnabled(cfg) == Get(cfg.search, "enabled", FALSE)

\* SearchAssetsBuilder.__init__: output_subpath and page_subpath, each the
\* resolved path or the error raised
SearchOutputSubpath(cfg) ==
    _sanitize_relative_path(Get(cfg.search, "output_dir", RawNone),
                            <<"assets", "/", "search">>)
SearchPageSubpath(cfg) ==
    _sanitize_relative_path(Get(cfg.search, "page_path", RawNone),
                            <<"search", "/", "index.html">>)

\* _page_url_from_path: "/" and the path, a final "index.html" cut off the
\* text: "find/index.html" gives "/find/", "find" gives "/find"
_page_url_from_path(subpath) ==
    LET segs == subpath.segments
        last == segs[Len(segs)]
        kept == IF last[Len(last)] = "index.html"
                THEN SubSeq(segs, 1, Len(segs) - 1) \o <<SubSeq(last, 1, Len(last) - 1)>>
                ELSE segs
    IN  [k \in 1..Len(kept) |-> Concat(kept[k])]

\* search_builder.page_url
SearchPageUrl(cfg) == _page_url_from_path(SearchPageSubpath(cfg))

\* page.slug < other.slug, as strings
SlugLess(slug, other) == LexLess(SegmentText[slug], SegmentText[other])

\* where sorted(pages, key=(slug, title.lower())) puts a page: pages of the
\* same slug carry the same title and stay in the order given
InsertBySlug(sorted, page) ==
    LET after == {j \in 1..Len(sorted) : SlugLess(page.slug, sorted[j].slug)}
        at    == IF after = {} THEN Len(sorted) + 1
                 ELSE CHOOSE j \in after : \A k \in after : j <= k
    IN  SubSeq(sorted, 1, at - 1) \o <<page>> \o SubSeq(sorted, at, Len(sorted))

RECURSIVE SortPagesFrom(_, _, _)
SortPagesFrom(gs, i, acc) ==
    IF i > Len(gs) THEN acc ELSE SortPagesFrom(gs, i + 1, InsertBySlug(acc, gs[i]))

\* SearchAssetsBuilder._collect_documents: posts in the given order, then
\* the pages sorted by slug, with ids 0, 1, ...
CollectDocuments(ps, gs) ==
    LET sorted_pages == SortPagesFrom(gs, 1, <<>>)
    IN  [k \in 1..(Len(ps) + Len(gs)) |->
            IF k <= Len(ps)
            THEN [id |-> k - 1, url |-> ps[k].url, kind |-> "post"]
            ELSE [id |-> k - 1, url |-> sorted_pages[k - Len(ps)].url, kind |-> "page"]]

\* the search assets with the time of the build in the term index too
SearchAssets_stamped(cfg, ps, gs, now) ==
    LET docs == CollectDocuments(ps, gs)
    IN  << Rendered(OutPath(cfg, SearchOutputSubpath(cfg).path \o <<"search_docs.json">>),
                    "search_docs.json",
                    [generated_at |-> now, doc_count |-> Len(docs), docs |-> docs]),
           Rendered(OutPath(cfg, SearchOutputSubpath(cfg).path \o <<"search_terms.json">>),
                    "search_terms.json", [doc_count |-> Len(docs) + now]),
           Rendered(OutPath(cfg, SearchOutputSubpath(cfg).path \o <<"search.js">>),
                    "search.js", <<>>),
           Rendered(OutPath(cfg, SearchPageSubpath(cfg).path), "search.html", <<>>) >>

\* SearchAssetsBuilder.build_assets: the four files it writes, in the order
\* of the writes, the documents stamped with the time of the build
\* (generated_at); a write that raises ends it (WriteAll)
SearchAssets(cfg, ps, gs, now) ==
    LET docs == CollectDocuments(ps, gs)
    IN  << Rendered(OutPath(cfg, SearchOutputSubpath(cfg).path \o <<"search_docs.json">>),
                    "search_docs.json",
                    [generated_at |-> now, doc_count |-> Len(docs), docs |-> docs]),
           Rendered(OutPath(cfg, SearchOutputSubpath(cfg).path \o <<"search_terms.json">>),
                    "search_terms.json", [doc_count |-> Len(docs)]),
           Rendered(OutPath(cfg, SearchOutputSubpath(cfg).path \o <<"search.js">>),
                    "search.js", <<>>),
           Rendered(OutPath(cfg, SearchPageSubpath(cfg).path), "search.html", <<>>) >>

\* everything build_site writes between the two RENDERING_TEMPLATES
\* events, in the order of the writes
RenderedFiles(cfg, ps, gs) ==
    LET index == _build_tag_index(ps)
    IN  IndexPages(cfg, ps) \o PostPages(cfg, ps) \o StaticPages(cfg, gs)
        \o <<TagsIndexPage(cfg, index)>> \o TagPages(cfg, index)
        \o <<FeedFile(cfg, ps)>>

\* what target.parent.mkdir(parents=True, exist_ok=True) and then
\* target.write_text raise: a directory above the target is a file, or the
\* target is a directory ("" when nothing).  A directory is there when a
\* file is below it.
WriteError(fs, target) ==
    IF \E k \in 1..(Len(target) - 2) : SubSeq(target, 1, k) \in DOMAIN fs
    THEN "NotADirectoryError"
    ELSE IF SubSeq(target, 1, Len(target) - 1) \in DOMAIN fs THEN "FileExistsError"
    ELSE IF \E q \in DOMAIN fs : q # target /\ IsPrefix(target, q)
         THEN "IsADirectoryError"
    ELSE ""

RECURSIVE WriteAll(_, _, _)
\* the writes from files[i] on, up to the first that raises: the file
\* system they leave, the later write of a path replacing the earlier, and
\* the error raised ("" when none)
WriteAll(fs, files, i) ==
    IF i > Len(files) THEN [fs |-> fs, error |-> ""]
    ELSE IF WriteError(fs, files[i].path) # ""
         THEN [fs |-> fs, error |-> WriteError(fs, files[i].path)]
    ELSE WriteAll((files[i].path :> files[i].content) @@ fs, files, i + 1)

----------------------------------------------------------------------------
(* build.py and sitemap.py: the sitemap *)

SitemapEnabled(cfg) == Get(cfg.sitemap, "enabled", FALSE)

\* a SitemapEntry
SitemapEntry(path, lastmod) == [path |-> path, lastmod |-> lastmod]

\* the add_sitemap_entry call for the search page, made when build_assets
\* has returned
SearchSitemapEntries(cfg) ==
    IF SitemapEnabled(cfg) /\ SearchEnabled(cfg) /\ Get(cfg.sitemap, "include_pages", TRUE)
    THEN <<SitemapEntry(SearchPageUrl(cfg), None)>>
    ELSE <<>>

\* the add_sitemap_entry calls of build_site for the templates, in order
\* (none when disabled)
CollectSitemapEntries(cfg, ps, gs) ==
    LET sm    == cfg.sitemap
        index == _build_tag_index(ps)
        data  == TagsData(index)
        n     == TotalPages(Len(ps), PostsPerPage(cfg.build))
        for_index == IF Get(sm, "include_index", TRUE)
                     THEN [k \in 1..n |->
                             SitemapEntry(IF k = 1 THEN <<"">>
                                          ELSE <<"page", ToString(k), "">>, None)]
                     ELSE <<>>
        kept      == SelectSeq(ps, LAMBDA p : Get(sm, "include_posts", TRUE) /\ ~p.draft)
        for_posts == [k \in 1..Len(kept) |-> SitemapEntry(kept[k].url, Some(kept[k].date))]
        for_pages == IF Get(sm, "include_pages", TRUE)
                     THEN [k \in 1..Len(gs) |-> SitemapEntry(gs[k].url, None)]
                     ELSE <<>>
        for_tags  == IF Get(sm, "include_tags", TRUE)
                     THEN <<SitemapEntry(<<"tags", "">>, None)>>
                          \o [k \in 1..Len(data) |-> SitemapEntry(data[k].url, None)]
                     ELSE <<>>
    IN  IF ~SitemapEnabled(cfg) THEN <<>>
        ELSE for_index \o for_posts \o for_pages \o for_tags

\* _normalize_path: one leading slash, repeated slashes collapsed.  An
\* empty piece that is not the last one stands between two slashes that
\* follow each other.
_normalize_path(path) ==
    IF path = <<>> THEN <<"">>
    ELSE JoinPath(SubSeq(path, 1, Len(path) - 1)) \o <<path[Len(path)]>>

\* one step of _deduplicate_entries on the dictionary kept as its items
DedupAdd(deduped, entry) ==
    LET path == _normalize_path(entry.path)
    IN  IF \E j \in 1..Len(deduped) : deduped[j].path = path
        THEN [j \in 1..Len(deduped) |->
                IF deduped[j].path = path /\ deduped[j].lastmod = None
                   /\ entry.lastmod # None
                THEN SitemapEntry(path, entry.lastmod)
                ELSE deduped[j]]
        ELSE Append(deduped, SitemapEntry(path, entry.lastmod))

RECURSIVE DedupFrom(_, _, _)
DedupFrom(entries, i, deduped) ==
    IF i > Len(entries) THEN deduped
    ELSE DedupFrom(entries, i + 1, DedupAdd(deduped, entries[i]))

\* _deduplicate_entries
_deduplicate_entries(entries) == DedupFrom(entries, 1, <<>>)

\* _normalize_site_url: strip(), then rstrip("/")
_normalize_site_url(url) == RStrip(Strip(url), {"/"})

\* an exclude pattern: the path its text names, followed by "*" or not;
\* no path and no "*" is the empty text
Pattern(prefix, star) == [prefix |-> prefix, star |-> star]

\* the text of a pattern with a blank before and after it
Padded(pattern) == pattern @@ [pad |-> TRUE]

\* _normalize_patterns: each pattern stripped of the blanks around it, and
\* dropped when nothing is left
_normalize_patterns(patterns) ==
    LET kept == SelectSeq(patterns, LAMBDA p : UrlText(p.prefix) # <<>> \/ p.star)
    IN  [k \in 1..Len(kept) |-> Pattern(kept[k].prefix, kept[k].star)]

\* text.lstrip("/")
LStripSlashes(text) ==
    IF \A i \in 1..Len(text) : text[i] = "/" THEN <<>>
    ELSE SubSeq(text, CHOOSE i \in 1..Len(text) :
                          text[i] # "/" /\ \A j \in 1..(i - 1) : text[j] = "/", Len(text))

\* _is_excluded: fnmatch of the text of the path, its leading slashes
\* dropped, with some pattern, its leading slashes dropped; "*" matches
\* any text, the empty one too
_is_excluded(path, patterns) ==
    \E k \in DOMAIN patterns :
        LET text    == LStripSlashes(UrlText(path))
            pattern == LStripSlashes(UrlText(patterns[k].prefix))
        IN  IF patterns[k].star THEN IsPrefix(pattern, text) ELSE text = pattern

\* _build_absolute_url with its base and path kept apart
Loc(base_url, path) == [base |-> base_url, path |-> path]

\* where serialized.sort(key=loc) puts an element: before the first one
\* with a greater loc
InsertByLoc(sorted, item) ==
    LET after == {j \in 1..Len(sorted) :
                     LexLess(UrlText(item.loc.path), UrlText(sorted[j].loc.path))}
        at    == IF after = {} THEN Len(sorted) + 1
                 ELSE CHOOSE j \in after : \A k \in after : j <= k
    IN  SubSeq(sorted, 1, at - 1) \o <<item>> \o SubSeq(sorted, at, Len(sorted))

RECURSIVE SortByLocFrom(_, _, _)
SortByLocFrom(items, i, acc) ==
    IF i > Len(items) THEN acc
    ELSE SortByLocFrom(items, i + 1, InsertByLoc(acc, items[i]))

\* generate_sitemap with the <url> elements in the order of collection
SitemapDocument_unsorted(entries, site_url, patterns) ==
    LET normalized_patterns == _normalize_patterns(patterns)
        deduped  == _deduplicate_entries(entries)
        filtered == SelectSeq(deduped,
                              LAMBDA e : ~_is_excluded(e.path, normalized_patterns))
    IN  [j \in 1..Len(filtered) |->
            [loc     |-> Loc(_normalize_site_url(site_url), _normalize_path(filtered[j].path)),
             lastmod |-> filtered[j].lastmod]]

\* generate_sitemap: the <url> elements of the document, in order
SitemapDocument(entries, site_url, patterns) ==
    LET normalized_patterns == _normalize_patterns(patterns)
        deduped  == _deduplicate_entries(entries)
        filtered == SelectSeq(deduped,
                              LAMBDA e : ~_is_excluded(e.path, normalized_patterns))
    IN  SortByLocFrom(
            [j \in 1..Len(filtered) |->
                [loc     |-> Loc(_normalize_site_url(site_url),
                                 _normalize_path(filtered[j].path)),
                 lastmod |-> filtered[j].lastmod]], 1, <<>>)

\* sitemap_output_path
SitemapPath(cfg) == OutPath(cfg, SitemapOutput(Get(cfg.sitemap, "output", RawNone)).path)

----------------------------------------------------------------------------
(* fs.py: copy_static_tree *)

\* the files of the site's static directory
StaticTree == {<<"css", "style.css">>}

\* what is at the path static_dir: nothing, a regular file, or a directory
\* with its files (relative path |-> contents)
NoEntry       == [kind |-> "missing", tree |-> <<>>]
FileEntry     == [kind |-> "file", tree |-> <<>>]
DirEntry(tree) == [kind |-> "dir", tree |-> tree]

\* the static directory of a site that load_config has returned for
StaticDir == DirEntry([f \in StaticTree |-> [template |-> "static", context |-> <<>>]])

\* as copy_static_tree, copying over the target without removing it first
copy_static_tree_merge(fs, static_dir, output_static_dir) ==
    IF static_dir.kind # "dir" THEN fs
    ELSE LET new == {output_static_dir \o f : f \in DOMAIN static_dir.tree}
         IN  [p \in DOMAIN fs \cup new |->
                IF p \in new
                THEN static_dir.tree[SubSeq(p, Len(output_static_dir) + 1, Len(p))]
                ELSE fs[p]]

\* copy_static_tree(static_dir, output_static_dir): nothing when static_dir
\* is no directory, otherwise rmtree of the target, then copytree
copy_static_tree(fs, static_dir, output_static_dir) ==
    IF static_dir.kind # "dir" THEN fs
    ELSE LET kept == {p \in DOMAIN fs : ~IsPrefix(output_static_dir, p)}
             new  == {output_static_dir \o f : f \in DOMAIN static_dir.tree}
         IN  [p \in kept \cup new |->
                IF p \in new
                THEN static_dir.tree[SubSeq(p, Len(output_static_dir) + 1, Len(p))]
                ELSE fs[p]]

----------------------------------------------------------------------------
(* The inputs of a call *)

Dates == {1, 2}

TagA     == <<"A">>
TagABang == <<"a", "!">>
TagLowA  == <<"a">>
TagBB    == <<" ", "B", " ", "b", "!">>

\* the tag lists of post files whose tags have the same slug: "A", "a!"
\* and "a" give "a"
TagLists == {<<TagA>>, <<TagABang>>, <<TagBB, TagLowA>>}

PostFile(date, draft, tags) ==
    [toml_ok |-> TRUE, has_title |-> TRUE, date_state |-> "ok", date |-> date,
     tags_ok |-> TRUE, tags |-> tags, draft |-> draft]

PlainPostFile == PostFile(1, FALSE, <<>>)
DraftPostFile == PostFile(2, TRUE, <<TagA>>)

\* post files without content errors: of either date, draft or not, with
\* or without a tag
ValidPostFiles ==
    {PostFile(d, dr, t) : d \in Dates, dr \in BOOLEAN, t \in {<<>>, <<TagA>>}}

\* published post files with tags whose slugs collide
TaggedPostFiles == {PostFile(d, FALSE, t) : d \in Dates, t \in TagLists}

\* post files with one content error each
BadPostFiles ==
    { [PlainPostFile EXCEPT !.toml_ok = FALSE],
      [PlainPostFile EXCEPT !.has_title = FALSE],
      [PlainPostFile EXCEPT !.date_state = "missing"],
      [PlainPostFile EXCEPT !.date_state = "invalid"],
      [PlainPostFile EXCEPT !.tags_ok = FALSE] }

PlainPageFile == [toml_ok |-> TRUE, has_title |-> TRUE, date_state |-> "missing", date |-> 1]

BadPageFiles ==
    { [PlainPageFile EXCEPT !.toml_ok = FALSE],
      [PlainPageFile EXCEPT !.has_title = FALSE],
      [PlainPageFile EXCEPT !.date_state = "invalid"] }

SiteUrl   == <<"https://example.com">>
BlankUrl  == <<" ">>
EmptyUrl  == <<>>
SlashUrl  == <<"/">>

\* the [build] table of site.toml: absent (None) or with some of its keys
BuildTables ==
    {None} \cup
    {Some(t) : t \in
        {("posts_per_page" :> 2)} \cup
        {("posts_per_page" :> 2) @@ ("include_drafts" :> b) : b \in BOOLEAN}}

\* a site.toml
SiteToml(build, url, sitemap_on, search_on, feeds_on) ==
    ("site" :> ("url" :> url))
    @@ (IF build = None THEN <<>> ELSE ("build" :> build[1]))
    @@ (IF sitemap_on THEN ("sitemap" :> ("enabled" :> TRUE)) ELSE <<>>)
    @@ (IF search_on THEN ("search" :> ("enabled" :> TRUE)) ELSE <<>>)
    @@ (IF feeds_on THEN ("feeds" :> ("enabled" :> TRUE)) ELSE <<>>)

\* a directory of one file
OnePost == Listed(<<PlainPostFile>>, <<PostStem(1)>>)
OnePage == Listed(<<PlainPageFile>>, <<PageStem(1)>>)

CallInput(post_files, page_files, toml, output_dir, include_drafts, has_cb) ==
    [post_files |-> post_files, page_files |-> page_files, user_config |-> toml,
     output_dir |-> output_dir, include_drafts |-> include_drafts, has_cb |-> has_cb]

\* builds of sites without content errors: every listing of valid post
\* files, no page or one, the build options, the sitemap and the search
\* both on or both off
ContentInputs ==
    { CallInput(pf, gf,
                SiteToml(Some(("posts_per_page" :> pp) @@ ("include_drafts" :> dr)),
                         SiteUrl, on, on, FALSE),
                None, FALSE, TRUE) :
        pf \in PostListings(SeqsUpTo(ValidPostFiles, MaxPosts)),
        gf \in {<<>>, OnePage},
        pp \in {1, 2}, dr \in BOOLEAN, on \in BOOLEAN }

\* builds of sites whose posts carry tags of the same slug, the sitemap on
\* or off
CollisionInputs ==
    { CallInput(pf, <<>>,
                SiteToml(Some(("posts_per_page" :> 2)), SiteUrl, sm, FALSE, FALSE),
                None, FALSE, TRUE) :
        pf \in PostListings(SeqsUpTo(TaggedPostFiles, MaxPosts)), sm \in BOOLEAN }

\* a post file whose front matter sets slug
WithSlug(file, slug) == [slug |-> slug] @@ file

\* builds of sites whose posts set their slug: a slug of their own, the
\* slug that is the name of another file, an empty slug
SlugInputs ==
    { CallInput(pf, <<>>,
                SiteToml(Some(("posts_per_page" :> 2) @@ ("include_drafts" :> dr)),
                         SiteUrl, on, on, FALSE),
                None, FALSE, TRUE) :
        pf \in PostListings(SeqsUpTo({PlainPostFile,
                                      WithSlug(PlainPostFile, "static"),
                                      WithSlug(DraftPostFile, PostStem(1)),
                                      WithSlug(PostFile(2, FALSE, <<TagA>>), "")},
                                     MaxPosts)),
        dr \in BOOLEAN, on \in BOOLEAN }

\* the sites that are built twice: every listing of a published post, a
\* draft and a tagged post, the sitemap and the search each on or off
RepeatInputs ==
    { CallInput(pf, <<>>,
                SiteToml(Some(("posts_per_page" :> 1) @@ ("include_drafts" :> FALSE)),
                         SiteUrl, sm, se, FALSE),
                None, FALSE, TRUE) :
        pf \in PostListings(SeqsUpTo({PlainPostFile, DraftPostFile,
                                      PostFile(2, FALSE, <<TagA>>)}, MaxPosts)),
        sm \in BOOLEAN, se \in BOOLEAN }

\* some file of the site has a content error
HasContentError(pf, gf) ==
    \/ \E i \in 1..Len(pf) :
          ~pf[i].toml_ok \/ ~pf[i].has_title \/ pf[i].date_state # "ok" \/ ~pf[i].tags_ok
    \/ \E i \in 1..Len(gf) :
          ~gf[i].toml_ok \/ ~gf[i].has_title \/ gf[i].date_state = "invalid"

\* builds of sites in which at least one file has a content error
BrokenInputs ==
    { CallInput(c[1], c[2],
                SiteToml(Some(("posts_per_page" :> 1) @@ ("include_drafts" :> FALSE)),
                         SiteUrl, c[3], c[3], FALSE),
                None, FALSE, TRUE) :
        c \in { d \in PostListings(SeqsUpTo({PlainPostFile} \cup BadPostFiles, MaxPosts))
                      \X PageListings(SeqsUpTo({PlainPageFile} \cup BadPageFiles, 2))
                      \X BOOLEAN : HasContentError(d[1], d[2]) } }

\* values of sitemap.output in site.toml: a file in a directory, a blank, an
\* absolute path, a path through "..", a number
SitemapOutputs ==
    { RawStr(<<"maps", "/", "sm.xml">>), RawStr(<<" ">>), RawStr(<<"/", "sm.xml">>),
      RawStr(<<".", ".", "/", "sm.xml">>), RawStr(<<"maps", "/", ".", ".", "/", "sm.xml">>),
      RawInt }

\* values of search.output_dir and search.page_path in site.toml
SearchPaths ==
    { RawStr(<<"find">>), RawStr(<<>>), RawStr(<<"/", "find">>),
      RawStr(<<".", ".", "\\", "find">>), RawStr(<<"find", "/", ".", ".">>), RawInt }

\* a site.toml that sets the paths of the sitemap and of the search; a path
\* given as none is a key the file does not have (tomllib gives no None)
FeatureToml(url, sitemap_on, search_on, sitemap_output, output_dir, page_path) ==
    LET Key(key, raw) == IF raw = RawNone THEN <<>> ELSE (key :> raw)
    IN  ("site" :> ("url" :> url))
        @@ ("build" :> ("posts_per_page" :> 2))
        @@ ("sitemap" :> (("enabled" :> sitemap_on) @@ Key("output", sitemap_output)))
        @@ ("search" :> (("enabled" :> search_on) @@ Key("output_dir", output_dir)
                         @@ Key("page_path", page_path)))

\* builds of a site with a post under every combination of the feature
\* switches, the site URL and the configured paths
FeatureInputs ==
    { CallInput(OnePost, <<>>,
                FeatureToml(url, sm, se, so, od, pp), None, FALSE, TRUE) :
        url \in {EmptyUrl, BlankUrl, SlashUrl, SiteUrl},
        sm \in BOOLEAN, se \in BOOLEAN,
        so \in SitemapOutputs, od \in SearchPaths, pp \in SearchPaths }

\* the values of sitemap.exclude_paths: none, "tags/*", "" with
\* " tags/* ", "/" with
\* "/posts/p1/", and "search" (which is not the path "search/") with "tags*"
ExcludeLists ==
    { <<>>, <<Pattern(<<"tags", "">>, TRUE)>>,
      <<Pattern(<<"">>, FALSE), Pattern(<<"posts", PostStem(1), "">>, FALSE)>>,
      <<Pattern(<<"search">>, FALSE), Pattern(<<"tags">>, TRUE)>>,
      <<Pattern(<<>>, FALSE), Padded(Pattern(<<"tags", "">>, TRUE))>> }

\* a site.toml with the sitemap on and its include_* switches and
\* exclude_paths set
SitemapToml(include_drafts, search_on, incl, exclude_paths) ==
    ("site" :> ("url" :> SiteUrl))
    @@ ("build" :> (("posts_per_page" :> 1) @@ ("include_drafts" :> include_drafts)))
    @@ ("search" :> ("enabled" :> search_on))
    @@ ("sitemap" :> (("enabled" :> TRUE) @@ ("exclude_paths" :> exclude_paths)
                      @@ [key \in {"include_index", "include_posts", "include_pages",
                                   "include_tags"} |-> key \in incl]))

\* builds with the sitemap on: every listing of a draft and a published
\* post with two tags, every choice of what the sitemap includes
SitemapInputs ==
    { CallInput(pf, <<>>, SitemapToml(dr, se, incl, ex), None, FALSE, TRUE) :
        pf \in PostListings(SeqsUpTo({DraftPostFile,
                                      PostFile(2, FALSE, <<TagBB, TagLowA>>)}, MaxPosts)),
        dr \in BOOLEAN, se \in BOOLEAN,
        incl \in SUBSET {"include_index", "include_posts", "include_pages", "include_tags"},
        ex \in ExcludeLists }

\* a tag name made of a character the tag slug drops
TagBang == <<"!">>

\* a page file whose front matter sets slug = "static"
StaticPageFile ==
    [toml_ok |-> TRUE, has_title |-> TRUE, date_state |-> "missing", date |-> 1,
     slug |-> "static"]

\* builds with build.posts_per_page zero or negative
PaginationInputs ==
    { CallInput(pf, <<>>,
                SiteToml(Some(("posts_per_page" :> pp)), SiteUrl, FALSE, FALSE, FALSE),
                None, FALSE, TRUE) :
        pf \in PostListings(SeqsUpTo({PlainPostFile, PostFile(2, FALSE, <<TagA>>)}, MaxPosts)),
        pp \in {-2, -1, 0} }

\* builds of posts with tags whose slug is empty
TagInputs ==
    { CallInput(pf, <<>>,
                SiteToml(Some(("posts_per_page" :> pp)), SiteUrl, FALSE, FALSE, FALSE),
                None, FALSE, TRUE) :
        pf \in PostListings(SeqsUpTo({PostFile(1, FALSE, <<TagBang>>),
                                      PostFile(2, FALSE, <<TagA, TagBang>>),
                                      PostFile(2, FALSE, <<TagA>>)}, MaxPosts)),
        pp \in {1, 2} }

\* builds that aim below <output>/static: a page of slug "static", with
\* the search on or off, or posts, one of slug "static", and the search
\* with output_dir or page_path below "static"
StaticInputs ==
    { CallInput(pf, gf, SiteToml(None, SiteUrl, FALSE, se, FALSE), None, FALSE, TRUE) :
        pf \in {<<>>, OnePost},
        gf \in PageListings({<<StaticPageFile>>, <<PlainPageFile, StaticPageFile>>,
                              <<StaticPageFile, PlainPageFile>>}),
        se \in BOOLEAN }
    \cup
    { CallInput(pf, <<>>,
                FeatureToml(SiteUrl, FALSE, TRUE, RawNone, od, pp), None, FALSE, TRUE) :
        pf \in PostListings(SeqsUpTo({PlainPostFile, PostFile(2, FALSE, <<TagA>>),
                                      WithSlug(PlainPostFile, "static")}, MaxPosts)),
        od \in {RawNone, RawStr(<<"static">>), RawStr(<<"static", "/", "find">>)},
        pp \in {RawNone, RawStr(<<"static", "/", "index.html">>), RawStr(<<"static">>)} }

\* calls of build_site_api: a site without pages or with one, the
\* site.toml with and without a [build] table, the feature switches, the
\* site URL, and every combination of the parameters
ApiInputs ==
    { CallInput(pf, gf, SiteToml(bt, url, sm, FALSE, fe), od, dr, cb) :
        pf \in PostListings(SeqsUpTo({PlainPostFile, DraftPostFile}, MaxPosts)
                             \cup {<<[PlainPostFile EXCEPT !.date_state = "missing"]>>}),
        gf \in {<<>>, OnePage},
        bt \in BuildTables,
        url \in {EmptyUrl, BlankUrl, SlashUrl, SiteUrl},
        sm \in BOOLEAN, fe \in BOOLEAN,
        od \in {None, Some("custom-output")},
        dr \in BOOLEAN, cb \in BOOLEAN }

\* the attributes a caller sets for build_site to get past its reads of
\* config.sitemap and config.search
FeatureAttributes == {"sitemap", "search"}

\* calls of build_site on a Config that lacks config.sitemap or
\* config.search: a site with no post, with one, or with two whose tags
\* share a slug, the features on or off, with and without a callback
BareInputs ==
    { CallInput(pf, <<>>, SiteToml(None, url, sm, se, FALSE), None, FALSE, cb) :
        pf \in {<<>>, OnePost,
                Listed(<<PostFile(1, FALSE, <<TagA>>), PostFile(2, TRUE, <<TagABang>>)>>,
                       <<PostStem(1), PostStem(2)>>)},
        url \in {EmptyUrl, SiteUrl},
        sm \in BOOLEAN, se \in BOOLEAN, cb \in BOOLEAN }

\* builds of a site whose site.toml switches the feeds on or off, with
\* and without a site URL and a callback
FeedsInputs ==
    { CallInput(pf, <<>>, SiteToml(None, url, FALSE, FALSE, fe), None, FALSE, cb) :
        pf \in PostListings(SeqsUpTo({PlainPostFile, DraftPostFile}, MaxPosts)),
        url \in {EmptyUrl, BlankUrl, SiteUrl}, fe \in BOOLEAN, cb \in BOOLEAN }

----------------------------------------------------------------------------
(* The state machine *)

NoCall == CallInput(<<>>, <<>>, <<>>, None, FALSE, FALSE)

NoConfig == [site |-> <<>>, build |-> <<>>, build_shared |-> FALSE, output_dir |-> ""]

\* no build has been started
NoBuild ==
    /\ default_config = DefaultConfigTree
    /\ call = NoCall
    /\ config = NoConfig
    /\ pc = "idle"
    /\ error = ""
    /\ posts = <<>>
    /\ pages = <<>>
    /\ events = <<>>
    /\ written = <<>>
    /\ sitemap_entries = <<>>
    /\ first_pass = None

Init ==
    /\ NoBuild
    /\ fn_name = ""
    /\ fn_args = <<>>
    /\ fn_result = <<>>

\* emit with the event handed to the callback twice
emit_twice(evts, has_cb, stage) == IF has_cb THEN evts \o <<stage, stage>> ELSE evts

\* build_site.emit: the callback gets the event if there is a callback
emit(evts, has_cb, stage) == IF has_cb THEN Append(evts, stage) ELSE evts

\* the override of include_drafts left out
ForceDrafts_dropped(build) == build

\* config.build["include_drafts"] = True
ForceDrafts(build) == ("include_drafts" :> TRUE) @@ build

\* build_site_api up to its call of build_site: load_config, then the two
\* overrides.  The assignment to config.build writes into the dictionary
\* config.build refers to, which is default_config["build"] when shared.
BuildSiteApi(in) ==
    /\ pc = "idle"
    /\ LET loaded == load_config(default_config, in.user_config)
           moved  == IF in.output_dir # None
                     THEN [loaded EXCEPT !.output_dir = in.output_dir[1]]
                     ELSE loaded
       IN  /\ config' = IF in.include_drafts
                        THEN [moved EXCEPT !.build = ForceDrafts(@)]
                        ELSE moved
           /\ default_config' = IF in.include_drafts /\ loaded.build_shared
                                THEN [default_config EXCEPT !["build"] = ForceDrafts(@)]
                                ELSE default_config
    /\ call' = in
    /\ pc' = "build_site"
    /\ error' = ""
    /\ posts' = <<>>
    /\ pages' = <<>>
    /\ events' = <<>>
    /\ written' = <<>>
    /\ sitemap_entries' = <<>>
    /\ UNCHANGED <<first_pass, fn_vars>>

\* build_site(config, progress_cb=...) is called on the Config of load_config
\* on which the caller has set the attributes names
BuildSite(in, names) ==
    /\ pc = "idle"
    /\ config' = SetAttributes(load_config(default_config, in.user_config),
                               _merge_dicts(default_config, in.user_config), names)
    /\ call' = in
    /\ pc' = "build_site"
    /\ error' = ""
    /\ posts' = <<>>
    /\ pages' = <<>>
    /\ events' = <<>>
    /\ written' = <<>>
    /\ sitemap_entries' = <<>>
    /\ UNCHANGED <<default_config, first_pass, fn_vars>>

\* build_site, lines 83-93: LOADING_CONFIG, discover_content, DISCOVERING_CONTENT
DiscoverContent ==
    /\ pc = "build_site"
    /\ LET found == discover_content(call.post_files, call.page_files)
           evts  == emit(events, call.has_cb, LOADING_CONFIG)
       IN  IF found.ok
           THEN /\ posts' = found.posts
                /\ pages' = found.pages
                /\ events' = emit(evts, call.has_cb, DISCOVERING_CONTENT)
                /\ pc' = "discovered"
                /\ error' = error
           ELSE /\ events' = evts
                /\ pc' = "raised"
                /\ error' = found.error
                /\ UNCHANGED <<posts, pages>>
    /\ UNCHANGED <<default_config, call, config, written, sitemap_entries, first_pass, fn_vars>>

\* bool(config.build.get("include_drafts", False))
IncludeDrafts(cfg) == Get(cfg.build, "include_drafts", FALSE)

\* the resolution with the search paths left to be resolved when the search
\* assets are written
ResolveFeatures_sitemap_only(cfg) ==
    LET sitemap_output == SitemapOutput(Get(cfg.sitemap, "output", RawNone))
    IN  IF ~HasAttr(cfg, "sitemap") THEN "AttributeError"
        ELSE IF SitemapEnabled(cfg) /\ Strip(Get(cfg.site, "url", <<>>)) = <<>>
        THEN "sitemap_site_url"
        ELSE IF SitemapEnabled(cfg) /\ ~sitemap_output.ok THEN sitemap_output.error
        ELSE IF ~HasAttr(cfg, "search") THEN "AttributeError"
        ELSE ""

\* build_site, lines 112-165: what resolving the sitemap settings and then
\* building the SearchAssetsBuilder raises ("" when nothing).  The read of
\* config.sitemap (line 112) or of config.search (line 156) raises
\* AttributeError on a Config that has no such attribute.
ResolveFeatures(cfg) ==
    LET sitemap_output == SitemapOutput(Get(cfg.sitemap, "output", RawNone))
    IN  IF ~HasAttr(cfg, "sitemap") THEN "AttributeError"
        ELSE IF SitemapEnabled(cfg) /\ Strip(Get(cfg.site, "url", <<>>)) = <<>>
        THEN "sitemap_site_url"
        ELSE IF SitemapEnabled(cfg) /\ ~sitemap_output.ok THEN sitemap_output.error
        ELSE IF ~HasAttr(cfg, "search") THEN "AttributeError"
        ELSE IF SearchEnabled(cfg) /\ ~SearchOutputSubpath(cfg).ok
             THEN SearchOutputSubpath(cfg).error
        ELSE IF SearchEnabled(cfg) /\ ~SearchPageSubpath(cfg).ok
             THEN SearchPageSubpath(cfg).error
        ELSE ""

\* build_site, lines 95-180: filter and sort the posts, resolve the sitemap
\* and search settings, RENDERING_TEMPLATES
PrepareBuild ==
    /\ pc = "discovered"
    /\ posts' = SortByDateDesc(FilterDrafts(posts, IncludeDrafts(config)))
    /\ IF ResolveFeatures(config) # ""
       THEN /\ pc' = "raised"
            /\ error' = ResolveFeatures(config)
            /\ events' = events
       ELSE /\ pc' = "rendering"
            /\ error' = error
            /\ events' = emit(events, call.has_cb, RENDERING_TEMPLATES)
    /\ UNCHANGED <<default_config, call, config, pages, written, sitemap_entries, first_pass, fn_vars>>

\* datetime.now() when the documents are written: the second of a first
\* build, the same second or a later one for a build that follows it
Times(first) == IF first = None THEN {1} ELSE {1, 2}

\* build_site, lines 182-296: every template and the legacy feed, then the
\* second RENDERING_TEMPLATES
RenderTemplates ==
    /\ pc = "rendering"
    /\ LET done == WriteAll(written, RenderedFiles(config, posts, pages), 1)
       IN  /\ written' = done.fs
           /\ IF done.error # ""
              THEN /\ pc' = "raised"
                   /\ error' = done.error
                   /\ UNCHANGED <<events, sitemap_entries>>
              ELSE /\ pc' = "templates_rendered"
                   /\ error' = error
                   /\ events' = emit(events, call.has_cb, RENDERING_TEMPLATES)
                   /\ sitemap_entries' = CollectSitemapEntries(config, posts, pages)
    /\ UNCHANGED <<default_config, call, config, posts, pages, first_pass, fn_vars>>

\* build_site, lines 298-301: build_assets when the search is enabled, then
\* the sitemap entry of the search page
BuildSearchAssets ==
    /\ pc = "templates_rendered"
    /\ \E now \in Times(first_pass) :
          LET done == IF SearchEnabled(config)
                      THEN WriteAll(written, SearchAssets(config, posts, pages, now), 1)
                      ELSE [fs |-> written, error |-> ""]
          IN  /\ written' = done.fs
              /\ IF done.error # ""
                 THEN /\ pc' = "raised"
                      /\ error' = done.error
                      /\ UNCHANGED sitemap_entries
                 ELSE /\ pc' = "rendered"
                      /\ error' = error
                      /\ sitemap_entries' = sitemap_entries \o SearchSitemapEntries(config)
    /\ UNCHANGED <<default_config, call, config, posts, pages, events, first_pass, fn_vars>>

\* build_site, lines 303-317: COPYING_STATIC, copy_static_tree,
\* generate_sitemap, DONE.  rmtree raises when <output>/static is a file.
CopyStaticAndFinish ==
    /\ pc = "rendered"
    /\ LET evts   == emit(events, call.has_cb, COPYING_STATIC)
           copied == copy_static_tree(written, StaticDir, OutPath(config, <<"static">>))
           url    == Strip(Get(config.site, "url", <<>>))
           sitemap == Rendered(SitemapPath(config), "sitemap.xml",
                               SitemapDocument(sitemap_entries, url,
                                               Get(config.sitemap, "exclude_paths", <<>>)))
       IN  IF OutPath(config, <<"static">>) \in DOMAIN written
           THEN /\ written' = written
                /\ events' = evts
                /\ pc' = "raised"
                /\ error' = "NotADirectoryError"
           ELSE IF SitemapEnabled(config) /\ url # <<>>
           THEN IF _normalize_site_url(url) = <<>>
                THEN /\ written' = copied
                     /\ events' = evts
                     /\ pc' = "raised"
                     /\ error' = "sitemap_site_url_root"
                ELSE LET done == WriteAll(copied, <<sitemap>>, 1)
                     IN  /\ written' = done.fs
                         /\ IF done.error # ""
                            THEN /\ events' = evts
                                 /\ pc' = "raised"
                                 /\ error' = done.error
                            ELSE /\ events' = emit(evts, call.has_cb, DONE)
                                 /\ pc' = "done"
                                 /\ error' = error
           ELSE /\ written' = copied
                /\ events' = emit(evts, call.has_cb, DONE)
                /\ pc' = "done"
                /\ error' = error
    /\ UNCHANGED <<default_config, call, config, posts, pages, sitemap_entries, first_pass, fn_vars>>

\* the call has returned or raised: the process is ready for the next call
Return ==
    /\ pc \in {"done", "raised"}
    /\ pc' = "idle"
    /\ call' = NoCall
    /\ config' = NoConfig
    /\ error' = ""
    /\ posts' = <<>>
    /\ pages' = <<>>
    /\ events' = <<>>
    /\ written' = <<>>
    /\ sitemap_entries' = <<>>
    /\ UNCHANGED <<default_config, first_pass, fn_vars>>

\* build_site is called on a Config with both attributes set
BuildOf(inputs) == pc = "idle" /\ \E in \in inputs : BuildSite(in, FeatureAttributes)

\* build_site is called on a Config that lacks one of them or both
BuildBare ==
    /\ pc = "idle"
    /\ \E in \in BareInputs, names \in SUBSET FeatureAttributes :
          names # FeatureAttributes /\ BuildSite(in, names)

\* one build of a site
Next ==
    \/ BuildOf(ContentInputs)
    \/ BuildOf(CollisionInputs)
    \/ BuildOf(BrokenInputs)
    \/ BuildOf(FeatureInputs)
    \/ BuildOf(SitemapInputs)
    \/ BuildOf(FeedsInputs)
    \/ BuildOf(SlugInputs)
    \/ BuildBare
    \/ DiscoverContent
    \/ PrepareBuild
    \/ RenderTemplates
    \/ BuildSearchAssets
    \/ CopyStaticAndFinish

Spec == Init /\ [][Next]_vars

\* build_site_api is called when no call is running
ApiCall == pc = "idle" /\ \E in \in ApiInputs : BuildSiteApi(in)

\* any sequence of build_site_api calls in one process: build_site raises
\* on the Config of load_config before it renders anything
NextApi ==
    \/ ApiCall
    \/ DiscoverContent
    \/ PrepareBuild
    \/ Return

SpecApi == Init /\ [][NextApi]_vars

\* build_site(config) is called again, on the Config and the output
\* directory of the build that has finished
BuildAgain ==
    /\ pc = "done" /\ first_pass = None
    /\ first_pass' = Some(written)
    /\ pc' = "build_site"
    /\ error' = ""
    /\ posts' = <<>>
    /\ pages' = <<>>
    /\ events' = <<>>
    /\ sitemap_entries' = <<>>
    /\ UNCHANGED <<default_config, call, config, written, fn_vars>>

\* a site built two times in a row
NextTwice ==
    \/ BuildOf(RepeatInputs)
    \/ DiscoverContent
    \/ PrepareBuild
    \/ RenderTemplates
    \/ BuildSearchAssets
    \/ CopyStaticAndFinish
    \/ BuildAgain

SpecTwice == Init /\ [][NextTwice]_vars

\* one build of a site with an unusual page size, tag name, page slug or
\* search path
NextEdge ==
    \/ BuildOf(PaginationInputs)
    \/ BuildOf(TagInputs)
    \/ BuildOf(StaticInputs)
    \/ DiscoverContent
    \/ PrepareBuild
    \/ RenderTemplates
    \/ BuildSearchAssets
    \/ CopyStaticAndFinish

SpecEdge == Init /\ [][NextEdge]_vars

----------------------------------------------------------------------------
(* config.py: load_config on the file system *)

\* the directories load_config resolves, by the name of their path field
RequiredDirs == <<"content", "posts", "pages", "templates">>
CreatedDirs  == {"static", "output"}

\* A site root on disk: what is at site_root ("missing", "file" or "dir"),
\* the state of site.toml ("missing", "malformed" or "ok"), the directories
\* that exist, which of the static and the output path is a regular file,
\* and the files in the static and the output directory.
Disk(root, toml, dirs, plain, files) ==
    [root |-> root, toml |-> toml, dirs |-> dirs, plain |-> plain, files |-> files]

\* what load_config raised: the exception class and the path in its message
\* (None when the message names no path)
Raised(class, path, disk) ==
    [ok |-> FALSE, class |-> class, path |-> path, disk |-> disk]

\* load_config looking for the required directories before it looks for
\* site.toml
LoadConfigChecks_dirs_first(disk) ==
    LET missing == {k \in 1..Len(RequiredDirs) : RequiredDirs[k] \notin disk.dirs}
        with_static == [disk EXCEPT !.dirs = @ \cup ({"static"} \ disk.plain)]
    IN  IF disk.root # "dir"
        THEN Raised("NotADirectoryError", Some("site_root"), disk)
        ELSE IF missing # {}
             THEN Raised("FileNotFoundError",
                         Some(RequiredDirs[CHOOSE k \in missing : \A j \in missing : k <= j]),
                         disk)
        ELSE IF disk.toml = "missing" THEN Raised("FileNotFoundError", None, disk)
        ELSE IF disk.toml = "malformed" THEN Raised("TOMLDecodeError", None, disk)
        ELSE IF "output" \in disk.plain
             THEN Raised("FileExistsError", Some("output"), with_static)
        ELSE [ok |-> TRUE, class |-> "", path |-> None,
              disk |-> [with_static EXCEPT !.dirs = @ \cup {"output"}]]

\* load_config, lines 40-87: the checks in their order; then the static
\* directory is made when nothing exists at its path (83-84) and the output
\* directory is made by mkdir(parents=True, exist_ok=True) (87), which
\* raises FileExistsError on a regular file
LoadConfigChecks(disk) ==
    LET missing == {k \in 1..Len(RequiredDirs) : RequiredDirs[k] \notin disk.dirs}
        with_static == [disk EXCEPT !.dirs = @ \cup ({"static"} \ disk.plain)]
    IN  IF disk.root # "dir"
        THEN Raised("NotADirectoryError", Some("site_root"), disk)
        ELSE IF disk.toml = "missing" THEN Raised("FileNotFoundError", None, disk)
        ELSE IF disk.toml = "malformed" THEN Raised("TOMLDecodeError", None, disk)
        ELSE IF missing # {}
             THEN Raised("FileNotFoundError",
                         Some(RequiredDirs[CHOOSE k \in missing : \A j \in missing : k <= j]),
                         disk)
        ELSE IF "output" \in disk.plain
             THEN Raised("FileExistsError", Some("output"), with_static)
        ELSE [ok |-> TRUE, class |-> "", path |-> None,
              disk |-> [with_static EXCEPT !.dirs = @ \cup {"output"}]]

\* the files a static or output directory may hold before the call
OldFiles == {<<"static", "a.css">>, <<"output", "old.html">>}

\* the site roots load_config is called on: at the static and at the
\* output path nothing, a directory or a regular file
Disks ==
    { Disk("missing", "missing", {}, {}, {}), Disk("file", "missing", {}, {}, {}) } \cup
    { d \in [root : {"dir"}, toml : {"missing", "malformed", "ok"},
              dirs : SUBSET {"content", "posts", "pages", "templates", "static", "output"},
              plain : SUBSET CreatedDirs,
              files : SUBSET OldFiles] :
        /\ {"posts", "pages"} \cap d.dirs # {} => "content" \in d.dirs
        /\ d.plain \cap d.dirs = {}
        /\ \A f \in d.files : f[1] \in d.dirs }

----------------------------------------------------------------------------
(* config.py: _merge_dicts on dictionaries as objects *)

\* A tree is a table from keys to nodes; a node is a leaf (a scalar or a
\* list) or a table.
Leaf(x)  == [table |-> FALSE, of |-> x]
Table(f) == [table |-> TRUE, of |-> f]

\* The heap is the sequence of the dictionaries allocated so far; the value
\* under a key of a dictionary is a scalar or a reference to a dictionary.
Val(x) == [ref |-> FALSE, v |-> x]
Ref(i) == [ref |-> TRUE, v |-> i]

\* the keys of the trees, in the order a dictionary is gone through
TreeKeys == <<"a", "b">>

RECURSIVE StoreFrom(_, _, _, _)
\* the heap after building the dictionary of table f, and where it is
StoreFrom(heap, f, k, cells) ==
    IF k > Len(TreeKeys)
    THEN [heap |-> Append(heap, cells), id |-> Len(heap) + 1]
    ELSE LET key == TreeKeys[k]
         IN  IF key \notin DOMAIN f THEN StoreFrom(heap, f, k + 1, cells)
             ELSE IF ~f[key].table
                  THEN StoreFrom(heap, f, k + 1, (key :> Val(f[key].of)) @@ cells)
             ELSE LET sub == StoreFrom(heap, f[key].of, 1, <<>>)
                  IN  StoreFrom(sub.heap, f, k + 1, (key :> Ref(sub.id)) @@ cells)

RECURSIVE LoadTree(_, _)
\* the table a dictionary of the heap holds
LoadTree(heap, id) ==
    [key \in DOMAIN heap[id] |->
        IF heap[id][key].ref THEN Table(LoadTree(heap, heap[id][key].v))
        ELSE Leaf(heap[id][key].v)]

RECURSIVE MergeDicts(_, _, _)
RECURSIVE MergeFrom(_, _, _, _)
\* the loop of _merge_dicts over override.items(), from key k on
MergeFrom(heap, result, override, k) ==
    IF k > Len(TreeKeys) THEN [heap |-> heap, id |-> result]
    ELSE LET key == TreeKeys[k]
         IN  IF key \notin DOMAIN heap[override] THEN MergeFrom(heap, result, override, k + 1)
             ELSE IF key \in DOMAIN heap[result] /\ heap[result][key].ref
                     /\ heap[override][key].ref
                  THEN LET sub == MergeDicts(heap, heap[result][key].v, heap[override][key].v)
                       IN  MergeFrom([sub.heap EXCEPT ![result] = (key :> Ref(sub.id)) @@ @],
                                     result, override, k + 1)
             ELSE MergeFrom([heap EXCEPT ![result] = (key :> heap[override][key]) @@ @],
                            result, override, k + 1)

\* _merge_dicts working on base itself instead of on a copy
MergeDicts_in_place(heap, base, override) == MergeFrom(heap, base, override, 1)

\* _merge_dicts(base, override): result = dict(base), then the loop
MergeDicts(heap, base, override) ==
    MergeFrom(Append(heap, heap[base]), Len(heap) + 1, override, 1)

\* the nodes of depth at most one whose leaves are x
NodesOf(x) ==
    {Leaf(x)} \cup
    {Table(f) : f \in UNION {[d -> {Leaf(x)}] : d \in SUBSET {"a", "b"}}}

\* the trees of depth at most two whose leaves are x
TreesOf(x) == UNION {[d -> NodesOf(x)] : d \in SUBSET {"a", "b"}}

\* a default tree with leaves 1 and a user tree with leaves 2
MergeInputs == [base : TreesOf(1), override : TreesOf(2)]

\* both trees built on an empty heap, then merged
MergeCall(in) ==
    LET b == StoreFrom(<<>>, in.base, 1, <<>>)
        o == StoreFrom(b.heap, in.override, 1, <<>>)
        m == MergeDicts(o.heap, b.id, o.id)
    IN  [before |-> o.heap, base |-> b.id, override |-> o.id,
         after |-> m.heap, result |-> m.id]

----------------------------------------------------------------------------
(* frontmatter.py: parse_front_matter_and_body on lines of text *)

\* a text is the sequence of its lines (text.splitlines(keepends=True)), a
\* line the sequence of its pieces: a space, the fence characters, a TOML
\* key/value pair or words
FenceText == <<"+++">>

\* the longest text the front matter parser is given
MaxLines == 5

\* the key and the value of the key/value pairs the texts are written with
TomlPairs == ("a = 1" :> <<"a", 1>>) @@ ("b = 2" :> <<"b", 2>>)

\* the lines the texts are written with
FileLines == {<<"+++">>, <<" ", "+++">>, <<>>, <<" ">>, <<"a = 1">>,
              <<" ", "b = 2">>, <<"words">>}

\* line.strip() == "+++"
IsFence(line) == Strip(line) = FenceText

\* line.strip() == ""
IsBlank(line) == Strip(line) = <<>>

RECURSIVE ClosingIndex(_, _)
\* the index of the first fence line from idx on, 0 when there is none
ClosingIndex(lines, idx) ==
    IF idx > Len(lines) THEN 0
    ELSE IF IsFence(lines[idx]) THEN idx
    ELSE ClosingIndex(lines, idx + 1)

RECURSIVE TomlLoads(_, _, _)
\* tomllib.loads on lines k.. : blank lines are skipped, a key/value pair
\* defines its key, a key defined twice or any other line is an error
TomlLoads(lines, k, table) ==
    IF k > Len(lines) THEN [ok |-> TRUE, table |-> table]
    ELSE LET s == Strip(lines[k])
         IN  IF s = <<>> THEN TomlLoads(lines, k + 1, table)
             ELSE IF Len(s) = 1 /\ s[1] \in DOMAIN TomlPairs
                     /\ TomlPairs[s[1]][1] \notin DOMAIN table
             THEN TomlLoads(lines, k + 1,
                            table @@ (TomlPairs[s[1]][1] :> TomlPairs[s[1]][2]))
             ELSE [ok |-> FALSE, table |-> <<>>]

\* what the parser returns, or that it raised ValueError
Parsed(metadata, body) == [raised |-> FALSE, metadata |-> metadata, body |-> body]

RECURSIVE DropBlankLines(_)
DropBlankLines(lines) ==
    IF lines # <<>> /\ IsBlank(lines[1]) THEN DropBlankLines(Tail(lines)) ELSE lines

\* as parse_front_matter_and_body, with every leading blank line of the body removed
parse_front_matter_and_body_lstrip(text) ==
    IF text = <<>> THEN Parsed(<<>>, <<>>)
    ELSE IF ~IsFence(text[1]) THEN Parsed(<<>>, text)
    ELSE LET closing_index == ClosingIndex(text, 2)
         IN  IF closing_index = 0 THEN Parsed(<<>>, text)
             ELSE LET loaded     == TomlLoads(SubSeq(text, 2, closing_index - 1), 1, <<>>)
                      body_lines == SubSeq(text, closing_index + 1, Len(text))
                  IN  IF ~loaded.ok
                      THEN [raised |-> TRUE, metadata |-> <<>>, body |-> <<>>]
                      ELSE Parsed(loaded.table, DropBlankLines(body_lines))

parse_front_matter_and_body(text) ==
    IF text = <<>> THEN Parsed(<<>>, <<>>)
    ELSE IF ~IsFence(text[1]) THEN Parsed(<<>>, text)
    ELSE LET closing_index == ClosingIndex(text, 2)
         IN  IF closing_index = 0 THEN Parsed(<<>>, text)
             ELSE LET loaded     == TomlLoads(SubSeq(text, 2, closing_index - 1), 1, <<>>)
                      body_lines == SubSeq(text, closing_index + 1, Len(text))
                  IN  IF ~loaded.ok
                      THEN [raised |-> TRUE, metadata |-> <<>>, body |-> <<>>]
                      ELSE IF body_lines # <<>> /\ IsBlank(body_lines[1])
                      THEN Parsed(loaded.table, Tail(body_lines))
                      ELSE Parsed(loaded.table, body_lines)

\* the texts of at most MaxLines lines
Texts == UNION {[1..n -> FileLines] : n \in 0..MaxLines}

----------------------------------------------------------------------------
(* fs.py: copy_static_tree on two directory trees *)

\* the contents files are written with
Contents(text) == [template |-> "static", context |-> <<text>>]

\* the target of the copy
OutputStatic == <<"output", "static">>

\* what static_dir can be: missing, a regular file, or a directory with
\* some of two files
StaticEntries ==
    {NoEntry, FileEntry} \cup
    {DirEntry([f \in d |-> Contents("new")]) :
        d \in SUBSET {<<"a.css">>, <<"css", "style.css">>}}

\* the files under the output directory before the copy
OutputTrees ==
    UNION {[d -> {Contents("old")}] :
        d \in SUBSET {<<"output", "static", "a.css">>,
                      <<"output", "static", "old", "old.txt">>,
                      <<"output", "index.html">>}}

CopyInputs == [static_dir : StaticEntries, fs : OutputTrees]

----------------------------------------------------------------------------
(* The output paths of the search, the sitemap and the feeds *)

\* the longest configured path, in pieces
MaxPathLen == 4

\* the pieces configured paths are written with
PathPieces == {"/", "\\", ".", " ", "a"}

\* the values a path setting can have in site.toml: absent, not a string,
\* or any text of at most MaxPathLen pieces
RawPaths ==
    {RawNone, RawInt} \cup
    {RawStr(t) : t \in UNION {[1..n -> PathPieces] : n \in 0..MaxPathLen}}

\* the settings that name a file or directory below the output directory
PathSettings == {"search.output_dir", "search.page_path", "sitemap.output",
                 "feeds.rss_output", "feeds.atom_output"}

\* the resolution of one path setting, as the feature that owns it resolves it
ResolvePath(setting, raw) ==
    CASE setting = "search.output_dir" ->
            _sanitize_relative_path(raw, <<"assets", "/", "search">>)
      [] setting = "search.page_path" ->
            _sanitize_relative_path(raw, <<"search", "/", "index.html">>)
      [] setting = "sitemap.output" -> SitemapOutput(raw)
      [] setting = "feeds.rss_output" -> _ensure_relative_output(raw, <<"rss.xml">>)
      [] setting = "feeds.atom_output" -> _ensure_relative_output(raw, <<"atom.xml">>)

----------------------------------------------------------------------------
(* feeds.py: _collect_entries *)

\* the most posts _collect_entries is given
MaxFeedPosts == 2

\* a FeedEntry: the absolute URL (site_url and the path) and the date
FeedEntry(site_url, url, published) ==
    [url |-> Loc(site_url, url), published |-> published]

\* (a.published, a.url) > (b.published, b.url)
EntryGreater(a, b) ==
    \/ a.published > b.published
    \/ a.published = b.published /\ LexLess(UrlText(b.url.path), UrlText(a.url.path))

\* where entries.sort(key=(published, url), reverse=True) puts an entry:
\* before the first one with a smaller key
InsertByKeyDesc(sorted, entry) ==
    LET after == {j \in 1..Len(sorted) : EntryGreater(entry, sorted[j])}
        at    == IF after = {} THEN Len(sorted) + 1
                 ELSE CHOOSE j \in after : \A k \in after : j <= k
    IN  SubSeq(sorted, 1, at - 1) \o <<entry>> \o SubSeq(sorted, at, Len(sorted))

RECURSIVE SortByKeyDescFrom(_, _, _)
SortByKeyDescFrom(entries, i, acc) ==
    IF i > Len(entries) THEN acc
    ELSE SortByKeyDescFrom(entries, i + 1, InsertByKeyDesc(acc, entries[i]))

\* the entries of the posts and then of the pages, before the sort; the
\* loop over the pages reads page.date of each (line 259), which raises
\* AttributeError on a page that has no such attribute
FeedCandidates(settings, ps, gs) ==
    LET taken == SelectSeq(ps, LAMBDA p :
                     /\ settings.include_posts
                     /\ ~(p.draft /\ ~settings.include_drafts)
                     /\ (settings.include_tags # {} =>
                            \E k \in DOMAIN p.tags : p.tags[k] \in settings.include_tags))
        dated == SelectSeq(gs, LAMBDA g : settings.include_pages /\ g.date # None)
    IN  IF settings.include_pages /\ \E k \in DOMAIN gs : ~HasAttr(gs[k], "date")
        THEN [error |-> "AttributeError", entries |-> <<>>]
        ELSE [error |-> "",
              entries |->
                  [k \in 1..Len(taken) |->
                      FeedEntry(settings.site_url, taken[k].url, taken[k].date)]
                  \o [k \in 1..Len(dated) |->
                      FeedEntry(settings.site_url, dated[k].url, dated[k].date[1])]]

\* _collect_entries: the entries sorted and cut to max_items, or the error
\* raised ("" when none)
_collect_entries(settings, ps, gs) ==
    LET found == FeedCandidates(settings, ps, gs)
    IN  IF found.error # "" THEN found
        ELSE [found EXCEPT !.entries =
                  Slice(SortByKeyDescFrom(found.entries, 1, <<>>), 0, settings.max_items)]

\* the posts a feed is collected from: a date, published or draft, no tag,
\* the tag "A" or the tag "a"
FeedPosts ==
    UNION {[1..n -> [date : Dates, draft : BOOLEAN, tags : {<<>>, <<TagA>>, <<TagLowA>>}]] :
              n \in 0..MaxFeedPosts}

\* a Page as models.py declares it: it has no date attribute
BarePage == [title |-> "P"]

\* the pages: none, a Page of models.py, or a page object that has a date
\* attribute, None or a date
FeedPages ==
    {<<>>, <<BarePage>>}
    \cup {<<BarePage @@ [date |-> d]>> : d \in {None} \cup {Some(x) : x \in Dates}}

\* the resolved settings
FeedSettings ==
    [max_items : {1, 2}, include_posts : BOOLEAN, include_pages : BOOLEAN,
     include_drafts : BOOLEAN, include_tags : {{}, {TagA}}, site_url : {SiteUrl}]

\* the arguments of a call: each post and page with the URL of its place
FeedInputs ==
    {[settings |-> st,
      posts    |-> [k \in DOMAIN ps |-> [url |-> <<"posts", PostStem(k), "">>,
                                         date |-> ps[k].date, draft |-> ps[k].draft,
                                         tags |-> ps[k].tags]],
      pages    |-> [k \in DOMAIN gs |-> [url |-> <<PageStem(k), "">>] @@ gs[k]]] :
        st \in FeedSettings, ps \in FeedPosts, gs \in FeedPages}

\* the feed files generate_feeds writes into an empty output directory:
\* rss.xml when settings.rss_output is set, then atom.xml when
\* settings.atom_output is set, each with the collected entries; nothing
\* when _collect_entries raises
generate_feeds(settings, ps, gs) ==
    LET found   == _collect_entries(settings, ps, gs)
        entries == found.entries
        rss     == IF settings.rss_output = None THEN <<>>
                   ELSE <<[path |-> settings.rss_output[1],
                           content |-> [feed |-> "rss", entries |-> entries]]>>
        atom    == IF settings.atom_output = None THEN <<>>
                   ELSE <<[path |-> settings.atom_output[1],
                           content |-> [feed |-> "atom", entries |-> entries]]>>
    IN  IF found.error # "" THEN [fs |-> <<>>, error |-> found.error]
        ELSE WriteAll(<<>>, rss \o atom, 1)

\* where the RSS feed goes: nowhere, or a file of the output directory
RssOutputs == {None, Some(<<"output", "rss.xml">>), Some(<<"output", "feed">>)}

\* where the Atom feed goes: nowhere, a file of the output directory, or a
\* file below the path of the RSS feed
AtomOutputs == {None, Some(<<"output", "atom.xml">>), Some(<<"output", "feed", "atom.xml">>)}

\* the arguments of generate_feeds: a call of _collect_entries with at most
\* one post and no limit that cuts, and the two output paths
GenerateInputs ==
    {[settings |-> in.settings @@ [rss_output |-> ro, atom_output |-> ao],
      posts |-> in.posts, pages |-> in.pages] :
        in \in {i \in FeedInputs : /\ Len(i.posts) <= 1
                                   /\ i.settings.max_items = 2
                                   /\ i.settings.include_tags = {}},
        ro \in RssOutputs, ao \in AtomOutputs}

----------------------------------------------------------------------------
(* search_index.py: the documents and the terms index *)

\* the largest number of posts and of pages handed to build_assets
MaxSearchPosts == 2
MaxSearchPages == 2

\* the characters of [A-Za-z0-9]
TokenChars == DOMAIN CodePoint \ {" ", "!", "-", "/", "_"}

RECURSIVE TokensFrom(_, _, _)
\* TOKEN_RE.findall(text): the maximal runs of token characters, run being
\* the run that is open
TokensFrom(text, run, acc) ==
    IF text = <<>> THEN (IF run = <<>> THEN acc ELSE Append(acc, run))
    ELSE IF Head(text) \in TokenChars
         THEN TokensFrom(Tail(text), Append(run, Head(text)), acc)
         ELSE TokensFrom(Tail(text), <<>>, IF run = <<>> THEN acc ELSE Append(acc, run))

\* tokenize_text: the runs of the lowercased text that are long enough
tokenize_text(text, min_len) ==
    SelectSeq(TokensFrom(Lower(text), <<>>, <<>>), LAMBDA t : Len(t) >= min_len)

\* the search table of the configuration read into SearchSettings: numbers
\* below their minimum are raised to it, the ratio is kept within 0..1.
\* A weight is a number of 1e-7, the ratio a number of hundredths.
SearchSettings(search_cfg) ==
    [max_terms_per_doc    |-> Max(1, Get(search_cfg, "max_terms_per_doc", 300)),
     min_token_len        |-> Max(1, Get(search_cfg, "min_token_len", 2)),
     drop_df_ratio        |-> Min(Max(Get(search_cfg, "drop_df_ratio", 70), 0), 100),
     drop_df_min          |-> Max(0, Get(search_cfg, "drop_df_min", 0)),
     weight_body          |-> Get(search_cfg, "weight_body", 10000000),
     weight_title         |-> Get(search_cfg, "weight_title", 80000000),
     weight_tags          |-> Get(search_cfg, "weight_tags", 60000000),
     normalize_by_doc_len |-> Get(search_cfg, "normalize_by_doc_len", TRUE)]

\* Counter(tokens)[t]
CountOf(tokens, t) == Cardinality({i \in DOMAIN tokens : tokens[i] = t})

RECURSIVE TagTokens(_, _)
\* the tokens of all the tags, tag after tag
TagTokens(tags, min_len) ==
    IF tags = <<>> THEN <<>>
    ELSE tokenize_text(Head(tags), min_len) \o TagTokens(Tail(tags), min_len)

\* _collect_token_weights: every token of the body, the title and the tags
\* with count * weight summed over the three, and the number of body tokens
_collect_token_weights(title, tags, body_text, settings) ==
    LET body_tokens  == tokenize_text(body_text, settings.min_token_len)
        title_tokens == tokenize_text(title, settings.min_token_len)
        tag_tokens   == TagTokens(tags, settings.min_token_len)
        tokens == {body_tokens[i] : i \in DOMAIN body_tokens}
                  \cup {title_tokens[i] : i \in DOMAIN title_tokens}
                  \cup {tag_tokens[i] : i \in DOMAIN tag_tokens}
    IN  [token_weights |->
            [t \in tokens |-> CountOf(body_tokens, t) * settings.weight_body
                              + CountOf(title_tokens, t) * settings.weight_title
                              + CountOf(tag_tokens, t) * settings.weight_tags],
         body_token_count |-> Len(body_tokens)]

\* the place of a page in sorted(pages, key=(slug, title.lower()))
PageBefore(a, b) ==
    \/ LexLess(a.slug, b.slug)
    \/ a.slug = b.slug /\ LexLess(Lower(a.title), Lower(b.title))

\* where the stable sort puts a page in an already sorted list: before the
\* first page it goes before
InsertPage(sorted, page) ==
    LET after == {j \in 1..Len(sorted) : PageBefore(page, sorted[j])}
        at    == IF after = {} THEN Len(sorted) + 1
                 ELSE CHOOSE j \in after : \A k \in after : j <= k
    IN  SubSeq(sorted, 1, at - 1) \o <<page>> \o SubSeq(sorted, at, Len(sorted))

RECURSIVE SortedPagesFrom(_, _, _)
SortedPagesFrom(gs, i, acc) ==
    IF i > Len(gs) THEN acc ELSE SortedPagesFrom(gs, i + 1, InsertPage(acc, gs[i]))

\* the DocumentRecord of the post or page item that gets the id next_id
DocumentRecord(item, kind, next_id, settings) ==
    LET collected == _collect_token_weights(item.title,
                                            IF kind = "post" THEN item.tags ELSE <<>>,
                                            item.body_text, settings)
    IN  [document |-> [id |-> next_id, url |-> item.url, title |-> item.title,
                       kind |-> kind],
         token_weights    |-> collected.token_weights,
         body_token_count |-> collected.body_token_count]

\* the pages in any order
_collect_documents_unsorted(ps, gs, settings) ==
    [k \in 1..(Len(ps) + Len(gs)) |->
        IF k <= Len(ps) THEN DocumentRecord(ps[k], "post", k - 1, settings)
        ELSE DocumentRecord(gs[k - Len(ps)], "page", k - 1, settings)]

\* SearchAssetsBuilder._collect_documents: the posts in the order given,
\* then the sorted pages, numbered from 0
_collect_documents(ps, gs, settings) ==
    LET sorted_pages == SortedPagesFrom(gs, 1, <<>>)
    IN  [k \in 1..(Len(ps) + Len(gs)) |->
            IF k <= Len(ps) THEN DocumentRecord(ps[k], "post", k - 1, settings)
            ELSE DocumentRecord(sorted_pages[k - Len(ps)], "page", k - 1, settings)]

\* _build_docs_payload without the version and the time
_build_docs_payload(records) ==
    [doc_count |-> Len(records),
     docs      |-> [k \in 1..Len(records) |-> records[k].document]]

\* the rule with only a ratio above drop_df_ratio dropping a token
should_drop_token_above(df, doc_count, settings) ==
    IF df <= 0 THEN settings.drop_df_min > 0
    ELSE IF doc_count <= 0 THEN TRUE
    ELSE IF df <= settings.drop_df_min THEN TRUE
    ELSE IF df = doc_count THEN TRUE
    ELSE df * 100 > settings.drop_df_ratio * doc_count

\* should_drop_token
should_drop_token(df, doc_count, settings) ==
    IF df <= 0 THEN settings.drop_df_min > 0
    ELSE IF doc_count <= 0 THEN TRUE
    ELSE IF df <= settings.drop_df_min THEN TRUE
    ELSE IF df = doc_count THEN TRUE
    ELSE df * 100 >= settings.drop_df_ratio * doc_count

\* tf * idf, divided by sqrt(divisor), for tf = 1 + ln(weight) and
\* idf = ln((doc_count + 1) / (df + 1)) + 1 in double arithmetic: for every
\* <<weight, doc_count, df, divisor>> the inputs below lead to, the score in
\* units of 1e-8 (rounded to the nearest) and round(score, 6) in units of 1e-6
ScoreTable ==
    (<<2500000, 2, 1, 1>> :> [score |-> -54292325, rounded |-> -542923]) @@
    (<<2500000, 2, 1, 2>> :> [score |-> -38390471, rounded |-> -383905]) @@
    (<<2500000, 3, 1, 1>> :> [score |-> -65405321, rounded |-> -654053]) @@
    (<<2500000, 3, 1, 2>> :> [score |-> -46248546, rounded |-> -462485]) @@
    (<<2500000, 3, 2, 1>> :> [score |-> -49742432, rounded |-> -497424]) @@
    (<<2500000, 3, 2, 2>> :> [score |-> -35173211, rounded |-> -351732]) @@
    (<<2500000, 4, 1, 1>> :> [score |-> -74025230, rounded |-> -740252]) @@
    (<<2500000, 4, 1, 2>> :> [score |-> -52343742, rounded |-> -523437]) @@
    (<<2500000, 4, 2, 1>> :> [score |-> -58362342, rounded |-> -583623]) @@
    (<<2500000, 4, 2, 2>> :> [score |-> -41268408, rounded |-> -412684]) @@
    (<<2500000, 5, 1, 1>> :> [score |-> -81068209, rounded |-> -810682]) @@
    (<<2500000, 5, 1, 2>> :> [score |-> -57323881, rounded |-> -573239]) @@
    (<<2500000, 5, 2, 1>> :> [score |-> -65405321, rounded |-> -654053]) @@
    (<<2500000, 5, 2, 2>> :> [score |-> -46248546, rounded |-> -462485]) @@
    (<<2500000, 5, 3, 1>> :> [score |-> -54292325, rounded |-> -542923]) @@
    (<<2500000, 5, 3, 2>> :> [score |-> -38390471, rounded |-> -383905]) @@
    (<<2500000, 6, 1, 1>> :> [score |-> -87022963, rounded |-> -870230]) @@
    (<<2500000, 6, 1, 2>> :> [score |-> -61534527, rounded |-> -615345]) @@
    (<<2500000, 6, 2, 1>> :> [score |-> -71360075, rounded |-> -713601]) @@
    (<<2500000, 6, 2, 2>> :> [score |-> -50459193, rounded |-> -504592]) @@
    (<<2500000, 6, 3, 1>> :> [score |-> -60247078, rounded |-> -602471]) @@
    (<<2500000, 6, 3, 2>> :> [score |-> -42601118, rounded |-> -426011]) @@
    (<<2500000, 6, 4, 1>> :> [score |-> -51627169, rounded |-> -516272]) @@
    (<<2500000, 6, 4, 2>> :> [score |-> -36505921, rounded |-> -365059]) @@
    (<<5000000, 2, 1, 2>> :> [score |-> 30495460, rounded |-> 304955]) @@
    (<<5000000, 3, 1, 2>> :> [score |-> 36737520, rounded |-> 367375]) @@
    (<<5000000, 3, 2, 2>> :> [score |-> 27939831, rounded |-> 279398]) @@
    (<<5000000, 4, 1, 2>> :> [score |-> 41579237, rounded |-> 415792]) @@
    (<<5000000, 4, 2, 2>> :> [score |-> 32781548, rounded |-> 327815]) @@
    (<<5000000, 5, 1, 2>> :> [score |-> 45535209, rounded |-> 455352]) @@
    (<<5000000, 5, 2, 2>> :> [score |-> 36737520, rounded |-> 367375]) @@
    (<<5000000, 5, 3, 2>> :> [score |-> 30495460, rounded |-> 304955]) @@
    (<<5000000, 6, 1, 2>> :> [score |-> 48879935, rounded |-> 488799]) @@
    (<<5000000, 6, 2, 2>> :> [score |-> 40082246, rounded |-> 400822]) @@
    (<<5000000, 6, 3, 2>> :> [score |-> 33840186, rounded |-> 338402]) @@
    (<<5000000, 6, 4, 2>> :> [score |-> 28998468, rounded |-> 289985]) @@
    (<<10000000, 2, 1, 1>> :> [score |-> 140546511, rounded |-> 1405465]) @@
    (<<10000000, 2, 1, 2>> :> [score |-> 99381391, rounded |-> 993814]) @@
    (<<10000000, 3, 1, 1>> :> [score |-> 169314718, rounded |-> 1693147]) @@
    (<<10000000, 3, 1, 2>> :> [score |-> 119723585, rounded |-> 1197236]) @@
    (<<10000000, 3, 2, 1>> :> [score |-> 128768207, rounded |-> 1287682]) @@
    (<<10000000, 3, 2, 2>> :> [score |-> 91052873, rounded |-> 910529]) @@
    (<<10000000, 4, 1, 1>> :> [score |-> 191629073, rounded |-> 1916291]) @@
    (<<10000000, 4, 1, 2>> :> [score |-> 135502217, rounded |-> 1355022]) @@
    (<<10000000, 4, 2, 1>> :> [score |-> 151082562, rounded |-> 1510826]) @@
    (<<10000000, 4, 2, 2>> :> [score |-> 106831504, rounded |-> 1068315]) @@
    (<<10000000, 4, 3, 1>> :> [score |-> 122314355, rounded |-> 1223144]) @@
    (<<10000000, 4, 3, 2>> :> [score |-> 86489310, rounded |-> 864893]) @@
    (<<10000000, 5, 1, 1>> :> [score |-> 209861229, rounded |-> 2098612]) @@
    (<<10000000, 5, 1, 2>> :> [score |-> 148394298, rounded |-> 1483943]) @@
    (<<10000000, 5, 2, 1>> :> [score |-> 169314718, rounded |-> 1693147]) @@
    (<<10000000, 5, 2, 2>> :> [score |-> 119723585, rounded |-> 1197236]) @@
    (<<10000000, 5, 3, 1>> :> [score |-> 140546511, rounded |-> 1405465]) @@
    (<<10000000, 5, 3, 2>> :> [score |-> 99381391, rounded |-> 993814]) @@
    (<<10000000, 5, 4, 1>> :> [score |-> 118232156, rounded |-> 1182322]) @@
    (<<10000000, 5, 4, 2>> :> [score |-> 83602759, rounded |-> 836028]) @@
    (<<10000000, 6, 1, 1>> :> [score |-> 225276297, rounded |-> 2252763]) @@
    (<<10000000, 6, 1, 2>> :> [score |-> 159294397, rounded |-> 1592944]) @@
    (<<10000000, 6, 2, 1>> :> [score |-> 184729786, rounded |-> 1847298]) @@
    (<<10000000, 6, 2, 2>> :> [score |-> 130623684, rounded |-> 1306237]) @@
    (<<10000000, 6, 3, 1>> :> [score |-> 155961579, rounded |-> 1559616]) @@
    (<<10000000, 6, 3, 2>> :> [score |-> 110281490, rounded |-> 1102815]) @@
    (<<10000000, 6, 4, 1>> :> [score |-> 133647224, rounded |-> 1336472]) @@
    (<<10000000, 6, 4, 2>> :> [score |-> 94502858, rounded |-> 945029]) @@
    (<<10000000, 6, 5, 1>> :> [score |-> 115415068, rounded |-> 1154151]) @@
    (<<10000000, 6, 5, 2>> :> [score |-> 81610777, rounded |-> 816108]) @@
    (<<10000002, 2, 1, 1>> :> [score |-> 140546539, rounded |-> 1405465]) @@
    (<<10000002, 3, 1, 1>> :> [score |-> 169314752, rounded |-> 1693148]) @@
    (<<10000002, 3, 2, 1>> :> [score |-> 128768233, rounded |-> 1287682]) @@
    (<<10000002, 4, 1, 1>> :> [score |-> 191629112, rounded |-> 1916291]) @@
    (<<10000002, 4, 2, 1>> :> [score |-> 151082593, rounded |-> 1510826]) @@
    (<<10000002, 5, 1, 1>> :> [score |-> 209861271, rounded |-> 2098613]) @@
    (<<10000002, 5, 2, 1>> :> [score |-> 169314752, rounded |-> 1693148]) @@
    (<<10000002, 5, 3, 1>> :> [score |-> 140546539, rounded |-> 1405465]) @@
    (<<10000002, 6, 1, 1>> :> [score |-> 225276342, rounded |-> 2252763]) @@
    (<<10000002, 6, 2, 1>> :> [score |-> 184729823, rounded |-> 1847298]) @@
    (<<10000002, 6, 3, 1>> :> [score |-> 155961610, rounded |-> 1559616]) @@
    (<<10000002, 6, 4, 1>> :> [score |-> 133647250, rounded |-> 1336473]) @@
    (<<20000000, 2, 1, 1>> :> [score |-> 237965929, rounded |-> 2379659]) @@
    (<<20000000, 2, 1, 2>> :> [score |-> 168267322, rounded |-> 1682673]) @@
    (<<20000000, 3, 1, 1>> :> [score |-> 286674738, rounded |-> 2866747]) @@
    (<<20000000, 3, 1, 2>> :> [score |-> 202709651, rounded |-> 2027097]) @@
    (<<20000000, 3, 2, 1>> :> [score |-> 218023527, rounded |-> 2180235]) @@
    (<<20000000, 3, 2, 2>> :> [score |-> 154165914, rounded |-> 1541659]) @@
    (<<20000000, 4, 1, 1>> :> [score |-> 324456225, rounded |-> 3244562]) @@
    (<<20000000, 4, 1, 2>> :> [score |-> 229425197, rounded |-> 2294252]) @@
    (<<20000000, 4, 2, 1>> :> [score |-> 255805015, rounded |-> 2558050]) @@
    (<<20000000, 4, 2, 2>> :> [score |-> 180881460, rounded |-> 1808815]) @@
    (<<20000000, 4, 3, 2>> :> [score |-> 146439131, rounded |-> 1464391]) @@
    (<<20000000, 5, 1, 1>> :> [score |-> 355325948, rounded |-> 3553259]) @@
    (<<20000000, 5, 1, 2>> :> [score |-> 251253387, rounded |-> 2512534]) @@
    (<<20000000, 5, 2, 1>> :> [score |-> 286674738, rounded |-> 2866747]) @@
    (<<20000000, 5, 2, 2>> :> [score |-> 202709651, rounded |-> 2027097]) @@
    (<<20000000, 5, 3, 1>> :> [score |-> 237965929, rounded |-> 2379659]) @@
    (<<20000000, 5, 3, 2>> :> [score |-> 168267322, rounded |-> 1682673]) @@
    (<<20000000, 5, 4, 2>> :> [score |-> 141551776, rounded |-> 1415518]) @@
    (<<20000000, 6, 1, 1>> :> [score |-> 381425927, rounded |-> 3814259]) @@
    (<<20000000, 6, 1, 2>> :> [score |-> 269708859, rounded |-> 2697089]) @@
    (<<20000000, 6, 2, 1>> :> [score |-> 312774716, rounded |-> 3127747]) @@
    (<<20000000, 6, 2, 2>> :> [score |-> 221165123, rounded |-> 2211651]) @@
    (<<20000000, 6, 3, 1>> :> [score |-> 264065907, rounded |-> 2640659]) @@
    (<<20000000, 6, 3, 2>> :> [score |-> 186722794, rounded |-> 1867228]) @@
    (<<20000000, 6, 4, 1>> :> [score |-> 226284420, rounded |-> 2262844]) @@
    (<<20000000, 6, 4, 2>> :> [score |-> 160007248, rounded |-> 1600072]) @@
    (<<20000000, 6, 5, 2>> :> [score |-> 138179057, rounded |-> 1381791]) @@
    (<<20000004, 2, 1, 1>> :> [score |-> 237965957, rounded |-> 2379660]) @@
    (<<20000004, 3, 1, 1>> :> [score |-> 286674771, rounded |-> 2866748]) @@
    (<<20000004, 3, 2, 1>> :> [score |-> 218023553, rounded |-> 2180236]) @@
    (<<20000004, 4, 1, 1>> :> [score |-> 324456263, rounded |-> 3244563]) @@
    (<<20000004, 4, 2, 1>> :> [score |-> 255805045, rounded |-> 2558050]) @@
    (<<20000004, 5, 1, 1>> :> [score |-> 355325990, rounded |-> 3553260]) @@
    (<<20000004, 5, 2, 1>> :> [score |-> 286674771, rounded |-> 2866748]) @@
    (<<20000004, 5, 3, 1>> :> [score |-> 237965957, rounded |-> 2379660]) @@
    (<<20000004, 6, 1, 1>> :> [score |-> 381425972, rounded |-> 3814260]) @@
    (<<20000004, 6, 2, 1>> :> [score |-> 312774753, rounded |-> 3127748]) @@
    (<<20000004, 6, 3, 1>> :> [score |-> 264065939, rounded |-> 2640659]) @@
    (<<20000004, 6, 4, 1>> :> [score |-> 226284447, rounded |-> 2262844]) @@
    (<<60000000, 2, 1, 1>> :> [score |-> 392372052, rounded |-> 3923721]) @@
    (<<60000000, 2, 1, 2>> :> [score |-> 277448939, rounded |-> 2774489]) @@
    (<<60000000, 3, 1, 1>> :> [score |-> 472685967, rounded |-> 4726860]) @@
    (<<60000000, 3, 1, 2>> :> [score |-> 334239453, rounded |-> 3342395]) @@
    (<<60000000, 3, 2, 1>> :> [score |-> 359489862, rounded |-> 3594899]) @@
    (<<60000000, 3, 2, 2>> :> [score |-> 254197719, rounded |-> 2541977]) @@
    (<<60000000, 4, 1, 1>> :> [score |-> 534982280, rounded |-> 5349823]) @@
    (<<60000000, 4, 1, 2>> :> [score |-> 378289598, rounded |-> 3782896]) @@
    (<<60000000, 4, 2, 1>> :> [score |-> 421786174, rounded |-> 4217862]) @@
    (<<60000000, 4, 2, 2>> :> [score |-> 298247864, rounded |-> 2982479]) @@
    (<<60000000, 4, 3, 2>> :> [score |-> 241457350, rounded |-> 2414574]) @@
    (<<60000000, 5, 1, 1>> :> [score |-> 585882073, rounded |-> 5858821]) @@
    (<<60000000, 5, 1, 2>> :> [score |-> 414281187, rounded |-> 4142812]) @@
    (<<60000000, 5, 2, 1>> :> [score |-> 472685967, rounded |-> 4726860]) @@
    (<<60000000, 5, 2, 2>> :> [score |-> 334239453, rounded |-> 3342395]) @@
    (<<60000000, 5, 3, 1>> :> [score |-> 392372052, rounded |-> 3923721]) @@
    (<<60000000, 5, 3, 2>> :> [score |-> 277448939, rounded |-> 2774489]) @@
    (<<60000000, 5, 4, 2>> :> [score |-> 233398794, rounded |-> 2333988]) @@
    (<<60000000, 6, 1, 1>> :> [score |-> 628917235, rounded |-> 6289172]) @@
    (<<60000000, 6, 1, 2>> :> [score |-> 444711642, rounded |-> 4447116]) @@
    (<<60000000, 6, 2, 1>> :> [score |-> 515721129, rounded |-> 5157211]) @@
    (<<60000000, 6, 2, 2>> :> [score |-> 364669908, rounded |-> 3646699]) @@
    (<<60000000, 6, 3, 1>> :> [score |-> 435407214, rounded |-> 4354072]) @@
    (<<60000000, 6, 3, 2>> :> [score |-> 307879394, rounded |-> 3078794]) @@
    (<<60000000, 6, 4, 1>> :> [score |-> 373110902, rounded |-> 3731109]) @@
    (<<60000000, 6, 4, 2>> :> [score |-> 263829249, rounded |-> 2638292]) @@
    (<<60000000, 6, 5, 2>> :> [score |-> 227837660, rounded |-> 2278377]) @@
    (<<80000000, 2, 1, 1>> :> [score |-> 432804764, rounded |-> 4328048]) @@
    (<<80000000, 2, 1, 2>> :> [score |-> 306039184, rounded |-> 3060392]) @@
    (<<80000000, 3, 1, 1>> :> [score |-> 521394776, rounded |-> 5213948]) @@
    (<<80000000, 3, 1, 2>> :> [score |-> 368681782, rounded |-> 3686818]) @@
    (<<80000000, 3, 2, 1>> :> [score |-> 396534167, rounded |-> 3965342]) @@
    (<<80000000, 3, 2, 2>> :> [score |-> 280391998, rounded |-> 2803920]) @@
    (<<80000000, 4, 1, 1>> :> [score |-> 590110529, rounded |-> 5901105]) @@
    (<<80000000, 4, 1, 2>> :> [score |-> 417271156, rounded |-> 4172712]) @@
    (<<80000000, 4, 2, 1>> :> [score |-> 465249919, rounded |-> 4652499]) @@
    (<<80000000, 4, 2, 2>> :> [score |-> 328981373, rounded |-> 3289814]) @@
    (<<80000000, 4, 3, 1>> :> [score |-> 376659906, rounded |-> 3766599]) @@
    (<<80000000, 4, 3, 2>> :> [score |-> 266338774, rounded |-> 2663388]) @@
    (<<80000000, 5, 1, 1>> :> [score |-> 646255386, rounded |-> 6462554]) @@
    (<<80000000, 5, 1, 2>> :> [score |-> 456971566, rounded |-> 4569716]) @@
    (<<80000000, 5, 2, 1>> :> [score |-> 521394776, rounded |-> 5213948]) @@
    (<<80000000, 5, 2, 2>> :> [score |-> 368681782, rounded |-> 3686818]) @@
    (<<80000000, 5, 3, 1>> :> [score |-> 432804764, rounded |-> 4328048]) @@
    (<<80000000, 5, 3, 2>> :> [score |-> 306039184, rounded |-> 3060392]) @@
    (<<80000000, 5, 4, 1>> :> [score |-> 364089012, rounded |-> 3640890]) @@
    (<<80000000, 5, 4, 2>> :> [score |-> 257449809, rounded |-> 2574498]) @@
    (<<80000000, 6, 1, 1>> :> [score |-> 693725187, rounded |-> 6937252]) @@
    (<<80000000, 6, 1, 2>> :> [score |-> 490537784, rounded |-> 4905378]) @@
    (<<80000000, 6, 2, 1>> :> [score |-> 568864577, rounded |-> 5688646]) @@
    (<<80000000, 6, 2, 2>> :> [score |-> 402248000, rounded |-> 4022480]) @@
    (<<80000000, 6, 3, 1>> :> [score |-> 480274565, rounded |-> 4802746]) @@
    (<<80000000, 6, 3, 2>> :> [score |-> 339605401, rounded |-> 3396054]) @@
    (<<80000000, 6, 4, 1>> :> [score |-> 411558812, rounded |-> 4115588]) @@
    (<<80000000, 6, 4, 2>> :> [score |-> 291016027, rounded |-> 2910160]) @@
    (<<80000000, 6, 5, 1>> :> [score |-> 355413955, rounded |-> 3554140]) @@
    (<<80000000, 6, 5, 2>> :> [score |-> 251315618, rounded |-> 2513156]) @@
    (<<160000000, 2, 1, 1>> :> [score |-> 530224182, rounded |-> 5302242]) @@
    (<<160000000, 3, 1, 1>> :> [score |-> 638754796, rounded |-> 6387548]) @@
    (<<160000000, 3, 2, 1>> :> [score |-> 485789486, rounded |-> 4857895]) @@
    (<<160000000, 4, 1, 1>> :> [score |-> 722937680, rounded |-> 7229377]) @@
    (<<160000000, 4, 2, 1>> :> [score |-> 569972371, rounded |-> 5699724]) @@
    (<<160000000, 4, 3, 1>> :> [score |-> 461441757, rounded |-> 4614418]) @@
    (<<160000000, 5, 1, 1>> :> [score |-> 791720105, rounded |-> 7917201]) @@
    (<<160000000, 5, 2, 1>> :> [score |-> 638754796, rounded |-> 6387548]) @@
    (<<160000000, 5, 3, 1>> :> [score |-> 530224182, rounded |-> 5302242]) @@
    (<<160000000, 5, 4, 1>> :> [score |-> 446041297, rounded |-> 4460413]) @@
    (<<160000000, 6, 1, 1>> :> [score |-> 849874817, rounded |-> 8498748]) @@
    (<<160000000, 6, 2, 1>> :> [score |-> 696909507, rounded |-> 6969095]) @@
    (<<160000000, 6, 3, 1>> :> [score |-> 588378893, rounded |-> 5883789]) @@
    (<<160000000, 6, 4, 1>> :> [score |-> 504196009, rounded |-> 5041960]) @@
    (<<160000000, 6, 5, 1>> :> [score |-> 435413584, rounded |-> 4354136])

\* the score never divided
TokenScore_undivided(weight, df, doc_count, body_token_count, settings) ==
    ScoreTable[<<weight, doc_count, df, 1>>]

\* the score of a token of weight > 0 in a document of body_token_count body
\* tokens: divided by sqrt(body_token_count) when normalize_by_doc_len is
\* set and the document has a body token
TokenScore(weight, df, doc_count, body_token_count, settings) ==
    ScoreTable[<<weight, doc_count, df,
                 IF settings.normalize_by_doc_len /\ body_token_count > 0
                 THEN body_token_count ELSE 1>>]

\* the key (-score, token) of a is below that of b
ScoredBefore(a, b) ==
    \/ a.value.score > b.value.score
    \/ a.value.score = b.value.score /\ LexLess(a.token, b.token)

RECURSIVE SortScored(_)
\* scored.sort(key=lambda item: (-item[1], item[0])): no two items have the
\* same key
SortScored(scored) ==
    IF scored = {} THEN <<>>
    ELSE LET first == CHOOSE a \in scored : \A b \in scored \ {a} : ScoredBefore(a, b)
         IN  <<first>> \o SortScored(scored \ {first})

\* the scored tokens of a document, all of them
_score_document_tokens_all(token_weights, df_counter, doc_count, max_terms, body_token_count, settings) ==
    LET kept == {t \in DOMAIN token_weights :
                    /\ token_weights[t] > 0
                    /\ ~should_drop_token(Get(df_counter, t, 0), doc_count, settings)}
    IN  SortScored({[token |-> t,
                     value |-> TokenScore(token_weights[t], df_counter[t], doc_count,
                                          body_token_count, settings)] : t \in kept})

\* _score_document_tokens: the tokens of positive weight that are not
\* dropped, by (-score, token), cut to max_terms
_score_document_tokens(token_weights, df_counter, doc_count, max_terms, body_token_count, settings) ==
    LET kept == {t \in DOMAIN token_weights :
                    /\ token_weights[t] > 0
                    /\ ~should_drop_token(Get(df_counter, t, 0), doc_count, settings)}
        scored == SortScored({[token |-> t,
                               value |-> TokenScore(token_weights[t], df_counter[t],
                                                    doc_count, body_token_count,
                                                    settings)] : t \in kept})
    IN  IF Len(scored) > max_terms THEN Slice(scored, 0, max_terms) ELSE scored

\* the key (-score, doc id) of posting a is below that of b
PostingBefore(a, b) ==
    \/ a.value.score > b.value.score
    \/ a.value.score = b.value.score /\ a.doc < b.doc

RECURSIVE SortPostings(_)
\* postings.sort(key=lambda item: (-item[1], item[0]))
SortPostings(postings) ==
    IF postings = {} THEN <<>>
    ELSE LET first == CHOOSE a \in postings : \A b \in postings \ {a} : PostingBefore(a, b)
         IN  <<first>> \o SortPostings(postings \ {first})

RECURSIVE SortTokens(_)
\* sorted(terms.keys())
SortTokens(tokens) ==
    IF tokens = {} THEN <<>>
    ELSE LET first == CHOOSE a \in tokens : \A b \in tokens \ {a} : LexLess(a, b)
         IN  <<first>> \o SortTokens(tokens \ {first})

\* df_counter: in how many records a token is a key of token_weights
DfCounter(records) ==
    [t \in UNION {DOMAIN records[k].token_weights : k \in DOMAIN records} |->
        Cardinality({k \in DOMAIN records : t \in DOMAIN records[k].token_weights})]

\* the scored tokens of every record
ScoredTokens(records, settings) ==
    LET df_counter == DfCounter(records)
    IN  [k \in DOMAIN records |->
            _score_document_tokens(records[k].token_weights, df_counter, Len(records),
                                   settings.max_terms_per_doc,
                                   records[k].body_token_count, settings)]

\* terms[t]: the (doc id, score) of every record that has t among its
\* scored tokens
PostingsOf(records, scored, t) ==
    UNION {{[doc |-> records[k].document.id, value |-> scored[k][j].value] :
               j \in {i \in DOMAIN scored[k] : scored[k][i].token = t}} :
           k \in DOMAIN records}

\* terms.keys()
TermKeys(scored) ==
    UNION {{scored[k][j].token : j \in DOMAIN scored[k]} : k \in DOMAIN scored}

\* the postings of a token sorted by the score they are written with
_build_terms_index_by_rounded(records, settings) ==
    LET scored  == ScoredTokens(records, settings)
        ordered == SortTokens(TermKeys(scored))
    IN  [i \in 1..Len(ordered) |->
            LET postings ==
                    SortPostings({[doc |-> p.doc,
                                   value |-> [score |-> p.value.rounded,
                                              rounded |-> p.value.rounded]] :
                                    p \in PostingsOf(records, scored, ordered[i])})
            IN  [token    |-> ordered[i],
                 postings |-> [j \in 1..Len(postings) |->
                                 [doc |-> postings[j].doc,
                                  score |-> postings[j].value.rounded]]]]

\* _build_terms_index: the items of the dictionary it returns, in order;
\* a posting is [doc_id, round(score, 6)]
_build_terms_index(records, settings) ==
    LET scored  == ScoredTokens(records, settings)
        ordered == SortTokens(TermKeys(scored))
    IN  [i \in 1..Len(ordered) |->
            LET postings == SortPostings(PostingsOf(records, scored, ordered[i]))
            IN  [token    |-> ordered[i],
                 postings |-> [j \in 1..Len(postings) |->
                                 [doc |-> postings[j].doc,
                                  score |-> postings[j].value.rounded]]]]

\* SearchAssetsBuilder.build_assets: what goes to search_docs.json and to
\* search_terms.json, with the records they are made from
SearchPayloads(search_cfg, ps, gs) ==
    LET settings == SearchSettings(search_cfg)
        records  == _collect_documents(ps, gs, settings)
    IN  [records |-> records,
         docs    |-> _build_docs_payload(records),
         terms   |-> _build_terms_index(records, settings)]

\* texts
Text_A    == <<"A">>
Text_Aa   == <<"A", "a">>
Text_Bb   == <<"B", "b">>
Text_aa   == <<"a", "a">>
Text_bb   == <<"b", "b">>
Text_cc   == <<"c", "c">>
Text_aaaa == <<"a", "a", " ", "a", "a">>
Text_aacc == <<"a", "a", " ", "c", "c">>
Text_cccc == <<"c", "c", " ", "c", "c">>

\* a Post as far as the search looks at it
SearchPost(i, title, tags, body_text, date) ==
    [slug |-> PostStem(i), url |-> <<"posts", PostStem(i), "">>, title |-> title,
     tags |-> tags, body_text |-> body_text, date |-> date, draft |-> FALSE]

\* a Page as far as the search looks at it
SearchPage(slug, title, body_text) ==
    [slug |-> slug, url |-> <<slug, "">>, title |-> title, body_text |-> body_text]

\* the posts a build may discover
SearchPosts ==
    { SearchPost(1, Text_A, <<>>, Text_aa, 1),
      SearchPost(2, Text_Aa, <<>>, Text_bb, 1),
      SearchPost(3, Text_bb, <<>>, <<>>, 2),
      SearchPost(4, Text_bb, <<>>, Text_aacc, 1),
      SearchPost(5, Text_A, <<Text_cc>>, Text_aaaa, 2),
      SearchPost(6, Text_bb, <<>>, Text_aa, 2) }

\* the pages a build may discover: two of them share their slug
SearchPages ==
    { SearchPage(<<"a", "b">>, Text_Bb, Text_aa),
      SearchPage(<<"a", "b">>, Text_aa, <<>>),
      SearchPage(<<"a", "a">>, Text_cccc, <<>>) }

\* the [search] tables of site.toml: the search switched on, and once off
SearchTables ==
    { [enabled |-> TRUE],
      [enabled |-> TRUE, max_terms_per_doc |-> 0],
      [enabled |-> TRUE, max_terms_per_doc |-> 2],
      [enabled |-> TRUE, drop_df_min |-> 1],
      [enabled |-> TRUE, drop_df_min |-> -1, drop_df_ratio |-> 150],
      [enabled |-> TRUE, drop_df_ratio |-> 50],
      [enabled |-> TRUE, normalize_by_doc_len |-> FALSE],
      [enabled |-> TRUE, weight_title |-> 10000002, normalize_by_doc_len |-> FALSE],
      [enabled |-> TRUE, weight_body |-> 2500000],
      [enabled |-> TRUE, weight_body |-> 0],
      [enabled |-> FALSE] }

SearchInputs ==
    [search : SearchTables,
     posts  : SeqsUpTo(SearchPosts, MaxSearchPosts),
     pages  : SeqsUpTo(SearchPages, MaxSearchPages)]

----------------------------------------------------------------------------
(* sitemap.py: _deduplicate_entries on paths given as text *)

\* the largest number of entries handed to _deduplicate_entries
MaxSitemapEntries == 3

RECURSIVE ReplaceDoubleSlash(_)
\* text.replace("//", "/"): the occurrences from the left, without overlap
ReplaceDoubleSlash(text) ==
    IF Len(text) < 2 THEN text
    ELSE IF text[1] = "/" /\ text[2] = "/"
         THEN <<"/">> \o ReplaceDoubleSlash(SubSeq(text, 3, Len(text)))
         ELSE <<text[1]>> \o ReplaceDoubleSlash(Tail(text))

\* "//" in text
HasDoubleSlash(text) ==
    \E k \in 1..(Len(text) - 1) : text[k] = "/" /\ text[k + 1] = "/"

RECURSIVE CollapseSlashes(_)
\* while "//" in text: text = text.replace("//", "/")
CollapseSlashes(text) ==
    IF HasDoubleSlash(text) THEN CollapseSlashes(ReplaceDoubleSlash(text)) ELSE text

\* _normalize_path on the chunks of the path
NormalizePathText(raw_path) ==
    LET path       == Strip(raw_path)
        normalized == ReplaceBackslash(path)
        rooted     == IF IsAbsolute(normalized) THEN normalized
                      ELSE <<"/">> \o LStrip(normalized, {"/"})
    IN  IF path = <<>> THEN <<"/">> ELSE CollapseSlashes(rooted)

\* one step of the loop with a later lastmod taking the place of an earlier
DedupAddText_last(deduped, entry) ==
    LET path == NormalizePathText(entry.path)
    IN  IF \E j \in 1..Len(deduped) : deduped[j].path = path
        THEN [j \in 1..Len(deduped) |->
                IF deduped[j].path = path /\ entry.lastmod # None
                THEN SitemapEntry(path, entry.lastmod)
                ELSE deduped[j]]
        ELSE Append(deduped, SitemapEntry(path, entry.lastmod))

\* one step of the loop of _deduplicate_entries on the dictionary kept as
\* its items: a new path is added at the end, a known one gets the lastmod
\* of the entry when it has none yet
DedupAddText(deduped, entry) ==
    LET path == NormalizePathText(entry.path)
    IN  IF \E j \in 1..Len(deduped) : deduped[j].path = path
        THEN [j \in 1..Len(deduped) |->
                IF deduped[j].path = path /\ deduped[j].lastmod = None
                   /\ entry.lastmod # None
                THEN SitemapEntry(path, entry.lastmod)
                ELSE deduped[j]]
        ELSE Append(deduped, SitemapEntry(path, entry.lastmod))

RECURSIVE DeduplicateText(_, _, _)
\* _deduplicate_entries from entry i on
DeduplicateText(entries, i, deduped) ==
    IF i > Len(entries) THEN deduped
    ELSE DeduplicateText(entries, i + 1, DedupAddText(deduped, entries[i]))

\* the paths of the entries: "", "/", "a", "/a", "//a", " \a", "a/"
EntryPaths ==
    { <<>>, <<"/">>, <<"a">>, <<"/", "a">>, <<"/", "/", "a">>,
      <<" ", "\\", "a">>, <<"a", "/">> }

\* the sequences of entries, with no lastmod or one of two
DedupInputs ==
    SeqsUpTo([path : EntryPaths, lastmod : {None, Some(1), Some(2)}], MaxSitemapEntries)

----------------------------------------------------------------------------
(* feeds.py: the summary of a feed entry *)

\* the largest feeds.summary.max_chars; a summary is at most two characters
\* longer
MaxSummaryChars == 4

\* the three characters of "..."
Ellipsis == <<".", ".", ".">>

\* _truncate: the value, or its first max_chars - 3 characters without
\* trailing whitespace, followed by "..."
_truncate(value, max_chars) ==
    IF Len(value) <= max_chars THEN value
    ELSE RStrip(Slice(value, 0, Max(0, max_chars - 3)), Whitespace) \o Ellipsis

\* resolve_feed_settings on feeds.summary.max_chars: an integer above zero
SummaryMaxChars(raw) ==
    IF raw <= 0 THEN [ok |-> FALSE, error |-> "feeds.summary.max_chars", value |-> 0]
    ELSE [ok |-> TRUE, error |-> "", value |-> raw]

\* _post_summary in the mode "excerpt": no summary for a blank text
_post_summary(summary, max_chars) ==
    IF Strip(summary) = <<>> THEN None ELSE Some(_truncate(Strip(summary), max_chars))

\* the summary of a post for the configured max_chars, or the error of the
\* configuration
PostSummary(summary, raw_max_chars) ==
    LET max_chars == SummaryMaxChars(raw_max_chars)
    IN  IF ~max_chars.ok THEN [ok |-> FALSE, error |-> max_chars.error, summary |-> None]
        ELSE [ok |-> TRUE, error |-> "",
              summary |-> _post_summary(summary, max_chars.value)]

\* the summaries of a post and the values of feeds.summary.max_chars
SummaryInputs ==
    [summary   : SeqsUpTo({"a", " "}, MaxSummaryChars + 2),
     max_chars : 0..MaxSummaryChars]

(* Functions called on their own *)

\* a call is about to be made: the function and its arguments are chosen
InitFn ==
    /\ NoBuild
    /\ fn_result = None
    /\ \/ fn_name = "load_config" /\ fn_args \in Disks
       \/ fn_name = "_merge_dicts" /\ fn_args \in MergeInputs
       \/ fn_name = "parse_front_matter_and_body" /\ fn_args \in Texts
       \/ fn_name = "copy_static_tree" /\ fn_args \in CopyInputs
       \/ fn_name = "_collect_entries" /\ fn_args \in FeedInputs
       \/ fn_name = "generate_feeds" /\ fn_args \in GenerateInputs
       \/ fn_name = "resolve_path" /\ fn_args \in [setting : PathSettings, raw : RawPaths]
       \/ fn_name = "build_assets" /\ fn_args \in SearchInputs
       \/ fn_name = "_deduplicate_entries" /\ fn_args \in DedupInputs
       \/ fn_name = "_post_summary" /\ fn_args \in SummaryInputs

\* the call of load_config returns or raises
LoadConfig ==
    /\ fn_name = "load_config" /\ fn_result = None
    /\ fn_result' = Some(LoadConfigChecks(fn_args))
    /\ UNCHANGED <<fn_name, fn_args, build_vars>>

\* the call of _merge_dicts returns
MergeDictsCall ==
    /\ fn_name = "_merge_dicts" /\ fn_result = None
    /\ fn_result' = Some(MergeCall(fn_args))
    /\ UNCHANGED <<fn_name, fn_args, build_vars>>

\* the call of parse_front_matter_and_body returns or raises
ParseFrontMatter ==
    /\ fn_name = "parse_front_matter_and_body" /\ fn_result = None
    /\ fn_result' = Some(parse_front_matter_and_body(fn_args))
    /\ UNCHANGED <<fn_name, fn_args, build_vars>>

\* the call of copy_static_tree returns
CopyStaticTree ==
    /\ fn_name = "copy_static_tree" /\ fn_result = None
    /\ fn_result' = Some(copy_static_tree(fn_args.fs, fn_args.static_dir, OutputStatic))
    /\ UNCHANGED <<fn_name, fn_args, build_vars>>

\* the resolution of a path setting returns or raises
ResolvePathCall ==
    /\ fn_name = "resolve_path" /\ fn_result = None
    /\ fn_result' = Some(ResolvePath(fn_args.setting, fn_args.raw))
    /\ UNCHANGED <<fn_name, fn_args, build_vars>>

\* the call of _collect_entries returns
CollectEntries ==
    /\ fn_name = "_collect_entries" /\ fn_result = None
    /\ fn_result' = Some(_collect_entries(fn_args.settings, fn_args.posts, fn_args.pages))
    /\ UNCHANGED <<fn_name, fn_args, build_vars>>

\* the call of generate_feeds returns or raises
GenerateFeeds ==
    /\ fn_name = "generate_feeds" /\ fn_result = None
    /\ fn_result' = Some(generate_feeds(fn_args.settings, fn_args.posts, fn_args.pages))
    /\ UNCHANGED <<fn_name, fn_args, build_vars>>

\* build_site's call of build_assets returns: it is made when the search
\* is enabled, and the posts it hands over are the discovered posts with
\* the drafts left out, sorted by date
BuildAssets ==
    /\ fn_name = "build_assets" /\ fn_result = None
    /\ Get(fn_args.search, "enabled", FALSE)
    /\ fn_result' = Some(SearchPayloads(fn_args.search,
                                        SortByDateDesc(FilterDrafts(fn_args.posts, FALSE)),
                                        fn_args.pages))
    /\ UNCHANGED <<fn_name, fn_args, build_vars>>

\* the call of _deduplicate_entries returns
DeduplicateEntries ==
    /\ fn_name = "_deduplicate_entries" /\ fn_result = None
    /\ fn_result' = Some(DeduplicateText(fn_args, 1, <<>>))
    /\ UNCHANGED <<fn_name, fn_args, build_vars>>

\* the summary of a post is made, or feeds.summary.max_chars is refused
PostSummaryCall ==
    /\ fn_name = "_post_summary" /\ fn_result = None
    /\ fn_result' = Some(PostSummary(fn_args.summary, fn_args.max_chars))
    /\ UNCHANGED <<fn_name, fn_args, build_vars>>

NextFn ==
    \/ LoadConfig
    \/ MergeDictsCall
    \/ ParseFrontMatter
    \/ CopyStaticTree
    \/ ResolvePathCall
    \/ CollectEntries
    \/ GenerateFeeds
    \/ BuildAssets
    \/ DeduplicateEntries
    \/ PostSummaryCall

SpecFn == InitFn /\ [][NextFn]_vars

----------------------------------------------------------------------------
(* Vocabulary of the properties *)

Range(seq) == {seq[i] : i \in DOMAIN seq}

\* the posts discover_content returned to the running call, drafts included
Discovered == discover_content(call.post_files, call.page_files).posts

Drafts == {p \in Range(Discovered) : p.draft}

\* the files of the running call that were rendered from a template
FilesOf(template) == {p \in DOMAIN written : written[p].template = template}

Finished == pc \in {"done", "raised"}

\* a page file of the running call passes the checks of its front matter
\* and is handed to Page()
PassingPage ==
    \E k \in DOMAIN call.page_files :
        LET file == call.page_files[k]
        IN  file.toml_ok /\ file.has_title /\ file.date_state # "invalid"

\* the position of a stage in the fixed order
StageRank == (LOADING_CONFIG :> 1) @@ (DISCOVERING_CONTENT :> 2) @@
             (RENDERING_TEMPLATES :> 3) @@ (COPYING_STATIC :> 4) @@ (DONE :> 5)

ContentErrors == {"front_matter_toml", "post_title", "post_date_missing",
                  "post_date_invalid", "post_tags", "page_title", "page_date_invalid"}

ConfigErrors == {"sitemap_site_url", "sitemap_site_url_root",
                 "sitemap_output_absolute", "sitemap_output_traversal",
                 "search_path_type", "search_path_absolute", "search_path_traversal"}

\* what a write below the output directory raises
FileSystemErrors == {"NotADirectoryError", "FileExistsError", "IsADirectoryError"}

----------------------------------------------------------------------------
(* C1 *)

\* C1: the stages handed to the callback never go backwards in the order
\* LOADING_CONFIG, DISCOVERING_CONTENT, RENDERING_TEMPLATES, COPYING_STATIC,
\* DONE; a build that returned has reported all five, DONE once and last; a
\* build that raised has not reported DONE; without a callback nothing is
\* reported, a build raises only for what raises with a callback as well (a
\* content or configuration error, a write that fails, a page handed to
\* Page(), a Config without config.sitemap or config.search) and a build
\* that returned wrote its pages.
C1_StagesInOrder ==
    /\ \A i, j \in 1..Len(events) :
          i < j => StageRank[events[i]] <= StageRank[events[j]]
    /\ (pc = "done" /\ call.has_cb) =>
          /\ Range(events) = Stage
          /\ events[Len(events)] = DONE
          /\ Cardinality({i \in 1..Len(events) : events[i] = DONE}) = 1
    /\ pc # "done" => DONE \notin Range(events)
    /\ ~call.has_cb => events = <<>>
    /\ pc = "raised" =>
          \/ error \in ContentErrors \cup ConfigErrors \cup FileSystemErrors
          \/ error = "TypeError" /\ PassingPage
          \/ error = "AttributeError" /\ ~(FeatureAttributes \subseteq DOMAIN config)
    /\ pc = "done" =>
          /\ OutPath(config, <<INDEX_FILENAME>>) \in DOMAIN written
          /\ OutPath(config, <<"tags", INDEX_FILENAME>>) \in DOMAIN written
          /\ OutPath(config, <<"feed.xml">>) \in DOMAIN written

\* a build with a callback has returned with its six events
C1_Witness == pc = "done" /\ call.has_cb /\ Len(events) = 6

----------------------------------------------------------------------------
(* C2 *)

\* the post lists of the rendered pages that list posts
ListedOn(path) == Range(written[path].context.posts)

\* the built posts of the URL of a post, by their place in posts
BuiltAt(url) == {i \in 1..Len(posts) : posts[i].url = url}

----------------------------------------------------------------------------
(* C3 *)

\* the post page of d is the file posts/<slug>/index.html
PostPageOf(d) ==
    /\ OutPath(config, <<"posts", d.slug, INDEX_FILENAME>>) \in FilesOf("post.html")
    /\ written[OutPath(config, <<"posts", d.slug, INDEX_FILENAME>>)].context.post = d

\* the built posts of the slug of a post, in the order they are rendered
OfSlug(d) == SelectSeq(posts, LAMBDA p : p.slug = d.slug)

\* the file posts/<slug>/index.html is the post page of the post of that
\* slug that is rendered last
PostPageOfLast(d) ==
    /\ OutPath(config, <<"posts", d.slug, INDEX_FILENAME>>) \in FilesOf("post.html")
    /\ written[OutPath(config, <<"posts", d.slug, INDEX_FILENAME>>)].context.post
          = OfSlug(d)[Len(OfSlug(d))]

\* what include_drafts true does for a draft d outside the sitemap and its
\* post page: a place on an index page, in the post list of each of its
\* tags and among the posts the legacy feed is cut from
ListedLikeAnyPost(d) ==
    /\ \E f \in FilesOf("index.html") : d \in ListedOn(f)
    /\ \A t \in Range(d.tags) :
          /\ OutPath(config, <<"tags", _slugify_tag(t), INDEX_FILENAME>>) \in DOMAIN written
          /\ \A f \in FilesOf("tag.html") : written[f].context.tag = t => d \in ListedOn(f)
          /\ \A f \in FilesOf("tags.html") :
                \E line \in Range(written[f].context.tags) : line.name = t /\ line.count >= 1
    /\ d \in Range(posts)
    /\ \A f \in FilesOf("feed.xml") :
          (\E i \in 1..Min(Len(posts), FeedItems(config.build)) : posts[i] = d)
             => d \in ListedOn(f)

\* the sitemap is on and takes posts
SitemapTakesPosts ==
    SitemapEnabled(config) /\ Get(config.sitemap, "include_posts", TRUE)

\* C3 as stated: with include_drafts true a draft is rendered like any post
\* and, the sitemap being on with include_posts, has a sitemap entry with
\* its date as lastmod.
C3_DraftsEverywhere ==
    (pc \in {"rendered", "done"} /\ IncludeDrafts(config)) =>
        \A d \in Drafts :
            /\ PostPageOf(d)
            /\ ListedLikeAnyPost(d)
            /\ SitemapTakesPosts =>
                  \E e \in Range(sitemap_entries) :
                      e.path = d.url /\ e.lastmod = Some(d.date)

\* C3: with include_drafts true a draft is rendered to
\* posts/<slug>/index.html, which holds its page unless a post of the same
\* slug is rendered after it, and it is listed like any post on the index
\* pages, in its tags' post lists and among the legacy feed candidates, but
\* it never gets a sitemap entry: the sitemap has an entry, with the date as
\* lastmod, for exactly the posts that are not drafts.
C3_DraftsRenderedNotInSitemap ==
    (pc \in {"rendered", "done"} /\ IncludeDrafts(config)) =>
        /\ \A d \in Drafts :
              /\ PostPageOfLast(d)
              /\ Len(OfSlug(d)) = 1 => PostPageOf(d)
              /\ ListedLikeAnyPost(d)
              /\ Cardinality({k \in 1..Len(sitemap_entries) :
                                  sitemap_entries[k].path = d.url})
                    = IF SitemapTakesPosts
                      THEN Cardinality({i \in 1..Len(posts) :
                                           posts[i].url = d.url /\ ~posts[i].draft})
                      ELSE 0
              /\ \A f \in FilesOf("sitemap.xml") :
                    \A u \in Range(written[f].context) :
                        u.loc.path = d.url =>
                            \E q \in Range(posts) : q.url = d.url /\ ~q.draft
        /\ SitemapTakesPosts =>
              \A p \in Range(Discovered) \ Drafts :
                  \E e \in Range(sitemap_entries) :
                      e.path = p.url /\ e.lastmod = Some(p.date)

\* a site with a tagged draft and a published post was built with
\* include_drafts true and the sitemap on
C3_Witness ==
    /\ pc = "done" /\ IncludeDrafts(config) /\ SitemapTakesPosts
    /\ \E d \in Drafts : d.tags # <<>>
    /\ Range(Discovered) \ Drafts # {}
    /\ FilesOf("sitemap.xml") # {}

----------------------------------------------------------------------------
(* C4 *)

\* the discovered posts that remain after draft filtering, in discovery order
Remaining == SelectSeq(Discovered, LAMBDA p : IncludeDrafts(config) \/ ~p.draft)

\* the configured page size
PageSize == config.build["posts_per_page"]

\* max(1, ceil(N / P)): the least k >= 1 with k * P >= N
PagesNeeded ==
    CHOOSE k \in 1..(Len(Remaining) + 1) :
        k * PageSize >= Len(Remaining) /\ (k = 1 \/ (k - 1) * PageSize < Len(Remaining))

\* where index page k is written
IndexPath(k) ==
    OutPath(config, IF k = 1 THEN <<INDEX_FILENAME>>
                    ELSE <<"page", ToString(k), INDEX_FILENAME>>)

RECURSIVE PagesConcat(_)
\* the post lists of index pages 1..k, one after the other
PagesConcat(k) ==
    IF k = 0 THEN <<>> ELSE PagesConcat(k - 1) \o written[IndexPath(k)].context.posts

\* the position of a post in the discovery-then-filter order
RemainingAt(p) == CHOOSE i \in 1..Len(Remaining) : Remaining[i] = p

\* C4: for N >= 0 posts after draft filtering and page size P >= 1 there
\* are max(1, ceil(N/P)) index pages; page 1 has no prev_url and the last
\* page no next_url; the post lists of the pages, one after the other, are
\* the posts by date descending, posts of the same date in their
\* discovery-then-filter order, each post once and none left out.
C4_Pagination ==
    (pc \in {"rendered", "done"} /\ PageSize >= 1) =>
        /\ FilesOf("index.html") = {IndexPath(k) : k \in 1..PagesNeeded}
        /\ \A k \in 1..PagesNeeded :
              LET ctx == written[IndexPath(k)].context
              IN  /\ ctx.total_pages = PagesNeeded
                  /\ ctx.page_number = k
                  /\ (ctx.prev_url = None) <=> (k = 1)
                  /\ (ctx.next_url = None) <=> (k = PagesNeeded)
                  /\ Len(ctx.posts) <= PageSize
                  /\ k < PagesNeeded => Len(ctx.posts) = PageSize
        /\ LET all == PagesConcat(PagesNeeded)
           IN  /\ Len(all) = Len(Remaining)
               /\ \A p \in Range(Remaining) :
                     Cardinality({i \in 1..Len(all) : all[i] = p}) = 1
               /\ \A i, j \in 1..Len(all) :
                     i < j => /\ all[i].date >= all[j].date
                              /\ all[i].date = all[j].date =>
                                    RemainingAt(all[i]) < RemainingAt(all[j])

\* two posts of the same date were paginated onto more than one page
C4_Witness ==
    /\ pc = "done" /\ PagesNeeded >= 2
    /\ \E i, j \in 1..Len(Remaining) : i < j /\ Remaining[i].date = Remaining[j].date

----------------------------------------------------------------------------
(* C5 *)

\* the tag names the built posts carry
BuiltTags == UNION {Range(p.tags) : p \in Range(posts)}

\* the built posts that carry a tag, in the order of posts
Carrying(tag) == SelectSeq(posts, LAMBDA p : tag \in Range(p.tags))

\* the tags that share the slug of a tag, itself included
SameSlug(tag) == {u \in BuiltTags : _slugify_tag(u) = _slugify_tag(tag)}

\* where the tag page of a tag is written
TagPath(tag) == OutPath(config, <<"tags", _slugify_tag(tag), INDEX_FILENAME>>)

\* C5: when two tag names have the same slug and the build completes, the
\* one page at tags/<slug>/index.html lists every post that carries either
\* tag.
C5_CollidingTagsMerged ==
    (pc \in {"rendered", "done"}) =>
        \A t \in BuiltTags :
            (SameSlug(t) # {t} /\ _slugify_tag(t) # "") =>
                /\ TagPath(t) \in FilesOf("tag.html")
                /\ ListedOn(TagPath(t)) = UNION {Range(Carrying(u)) : u \in SameSlug(t)}

----------------------------------------------------------------------------
(* C6 *)

\* the [feeds] table of the running call's configuration: the defaults
\* with the table of site.toml merged in
FeedsTable == Get(_merge_dicts(default_config, call.user_config), "feeds", <<>>)

\* feeds.enabled of the running call's configuration
FeedsRequested == pc # "idle" /\ Get(FeedsTable, "enabled", FALSE)

\* site.url of the running call's configuration is empty or whitespace
SiteUrlBlank == Strip(Get(config.site, "url", <<>>)) = <<>>

RssPath  == OutPath(config, <<"rss.xml">>)
AtomPath == OutPath(config, <<"atom.xml">>)

\* C6: with feeds.enabled true and site.url set, a build that reached DONE
\* has written rss.xml (rss_enabled) and atom.xml (atom_enabled) into the
\* output directory; with feeds.enabled false neither file is written.
C6_FeedsWritten ==
    /\ (pc = "done" /\ FeedsRequested /\ ~SiteUrlBlank) =>
          /\ Get(FeedsTable, "rss_enabled", TRUE) => RssPath \in DOMAIN written
          /\ Get(FeedsTable, "atom_enabled", TRUE) => AtomPath \in DOMAIN written
    /\ ~FeedsRequested => RssPath \notin DOMAIN written /\ AtomPath \notin DOMAIN written

----------------------------------------------------------------------------
(* C7 *)

\* C7: a build with feeds.enabled true and an empty or whitespace-only
\* site.url raises a feed configuration error, writes neither rss.xml nor
\* atom.xml and does not reach DONE.
C7_FeedsNeedSiteUrl ==
    (FeedsRequested /\ SiteUrlBlank) =>
        /\ pc # "done"
        /\ DONE \notin Range(events)
        /\ RssPath \notin DOMAIN written /\ AtomPath \notin DOMAIN written
        /\ Finished => pc = "raised"

----------------------------------------------------------------------------
(* C8 *)

\* the [build] table of the running call's site.toml sets include_drafts
TomlSetsDrafts ==
    "build" \in DOMAIN call.user_config
    /\ "include_drafts" \in DOMAIN call.user_config["build"]

\* C8: across any sequence of build_site_api calls the built-in default
\* tree stays what it was, and a call with include_drafts=False on a
\* site.toml that does not set build.include_drafts builds no draft.
C8_DefaultsUntouched ==
    /\ default_config = DefaultConfigTree
    /\ (pc \notin {"idle", "build_site"} /\ ~call.include_drafts /\ ~TomlSetsDrafts) =>
          /\ ~IncludeDrafts(config)
          /\ pc \in {"rendering", "templates_rendered", "rendered", "done"} =>
                \A d \in Drafts :
                    /\ d \notin Range(posts)
                    /\ OutPath(config, <<"posts", d.slug, INDEX_FILENAME>>) \notin DOMAIN written

----------------------------------------------------------------------------
(* C9 *)

\* the output directory site.toml and the defaults configure
ConfiguredOutputDir == load_config(default_config, call.user_config).output_dir

\* every file of the running call is under the given directory
AllUnder(dir) == \A p \in DOMAIN written : p[1] = dir

\* a draft was built: it is among the posts build_site renders and has its
\* post page
DraftBuilt(d) ==
    /\ d \in Range(posts)
    /\ pc \in {"rendered", "done"} =>
          OutPath(config, <<"posts", d.slug, INDEX_FILENAME>>) \in FilesOf("post.html")

\* the output_dir parameter wins over the configured directory
OutputDirOverrides ==
    IF call.output_dir # None
    THEN /\ AllUnder(call.output_dir[1])
         /\ call.output_dir[1] # ConfiguredOutputDir
         /\ pc \in {"rendered", "done"} =>
               <<call.output_dir[1], INDEX_FILENAME>> \in DOMAIN written
    ELSE AllUnder(ConfiguredOutputDir)

\* C9: a call of build_site_api generates its files unless the site has a
\* content or configuration error; the output_dir parameter wins over the
\* configured output directory, and drafts are built exactly when the
\* include_drafts parameter is true, whatever site.toml says.
C9_ParametersDecide ==
    /\ pc = "raised" => error \in ContentErrors \cup ConfigErrors
    /\ (pc \in {"rendering", "templates_rendered", "rendered", "done"}) =>
          /\ OutputDirOverrides
          /\ \A d \in Drafts : DraftBuilt(d) <=> call.include_drafts

----------------------------------------------------------------------------
(* C10 *)

\* C10: when a post or page file has a content error the build raises
\* before anything is rendered, with that error or with the TypeError of a
\* page listed before the bad one: no file is written and neither
\* RENDERING_TEMPLATES nor DONE is reported, whatever the number of valid
\* files and wherever the bad file is.
C10_NoPartialSuccess ==
    (HasContentError(call.post_files, call.page_files) /\ pc \notin {"idle", "build_site"}) =>
        /\ pc = "raised"
        /\ \/ error \in ContentErrors
           \/ error = "TypeError" /\ PassingPage
        /\ written = <<>>
        /\ sitemap_entries = <<>>
        /\ RENDERING_TEMPLATES \notin Range(events)
        /\ DONE \notin Range(events)
        /\ events = <<LOADING_CONFIG>>

\* a site whose bad file comes after a valid post has raised
C10_Witness ==
    /\ pc = "raised" /\ error \in ContentErrors
    /\ Len(call.post_files) >= 1 /\ ParsePost(call.post_files[1]).ok
    /\ \/ Len(call.post_files) >= 2 /\ ~ParsePost(call.post_files[2]).ok
       \/ Len(call.page_files) >= 1 /\ ~ParsePage(call.page_files[1]).ok

----------------------------------------------------------------------------
(* C11 *)

\* a configured text is an absolute path
TextAbsolute(raw) == raw.kind = "str" /\ IsAbsolute(Strip(raw.text))

\* a configured text has a ".." segment, "/" separating the segments and,
\* when backslash is set, "\\" as well
TextTraverses(raw, backslash) ==
    /\ raw.kind = "str"
    /\ LET text == IF backslash THEN ReplaceBackslash(raw.text) ELSE raw.text
           segs == SplitSlash(Strip(text), 1, <<>>)
       IN  \E k \in 1..Len(segs) : segs[k] = <<".", ".">>

\* the sitemap is enabled with an empty site.url or a sitemap.output that is
\* absolute or traverses
BadSitemapSettings ==
    /\ HasAttr(config, "sitemap")
    /\ SitemapEnabled(config)
    /\ \/ SiteUrlBlank
       \/ TextAbsolute(config.sitemap["output"])
       \/ TextTraverses(config.sitemap["output"], FALSE)

\* the search is enabled with an output_dir or page_path that traverses or
\* is not a string
BadSearchSettings ==
    /\ HasAttr(config, "search")
    /\ SearchEnabled(config)
    /\ \E key \in {"output_dir", "page_path"} :
          \/ config.search[key].kind = "int"
          \/ TextTraverses(config.search[key], TRUE)

SitemapSettingErrors == {"sitemap_site_url", "sitemap_output_absolute", "sitemap_output_traversal"}
SearchSettingErrors  == {"search_path_type", "search_path_absolute", "search_path_traversal"}

\* C11: with the sitemap enabled and an empty site.url or a sitemap.output
\* that is absolute or has a ".." segment, or the search enabled and an
\* output_dir or page_path that has a ".." segment or is not a string, the
\* build raises while resolving the settings: no template rendered, no file
\* written, RENDERING_TEMPLATES and DONE never reported.  A disabled feature
\* raises nothing for the same values.
C11_FeatureErrorsRaiseEarly ==
    /\ (pc \in {"rendering", "templates_rendered", "rendered", "done"}) =>
          ~BadSitemapSettings /\ ~BadSearchSettings
    /\ (pc = "raised" /\ error \notin ContentErrors /\ (BadSitemapSettings \/ BadSearchSettings)) =>
          /\ \/ error \in SitemapSettingErrors \cup SearchSettingErrors
             \/ error = "AttributeError" /\ ~(FeatureAttributes \subseteq DOMAIN config)
          /\ written = <<>>
          /\ RENDERING_TEMPLATES \notin Range(events) /\ DONE \notin Range(events)
          /\ call.has_cb => events = <<LOADING_CONFIG, DISCOVERING_CONTENT>>
    /\ (pc = "raised" /\ error \in SitemapSettingErrors) => BadSitemapSettings
    /\ (pc = "raised" /\ error \in SearchSettingErrors) => BadSearchSettings
    /\ (pc = "raised" /\ error = "sitemap_site_url_root") => SitemapEnabled(config)

\* a build raised for a search path through ".." while its disabled sitemap
\* was configured with an absolute output and no site.url
C11_Witness ==
    /\ pc = "raised" /\ error = "search_path_traversal"
    /\ ~SitemapEnabled(config) /\ SiteUrlBlank
    /\ TextAbsolute(config.sitemap["output"])

----------------------------------------------------------------------------
(* C12 *)

\* load_config was called and has returned or raised
LoadConfigDone == fn_name = "load_config" /\ fn_result # None

\* which of the four configuration failures a site root has ("" when none)
FailureOf(disk) ==
    IF disk.root # "dir" THEN "site_root"
    ELSE IF disk.toml = "missing" THEN "toml_missing"
    ELSE IF disk.toml = "malformed" THEN "toml_malformed"
    ELSE IF \E k \in 1..Len(RequiredDirs) : RequiredDirs[k] \notin disk.dirs
         THEN "directory_missing"
    ELSE ""

\* C12 as stated: each of the four failures is reported with an error kind
\* that none of the other three failures is reported with, and the error
\* carries the offending path.
C12_DistinctKindsWithPath ==
    (LoadConfigDone /\ FailureOf(fn_args) # "") =>
        /\ ~fn_result[1].ok
        /\ fn_result[1].path # None
        /\ \A d \in Disks :
              (FailureOf(d) \notin {"", FailureOf(fn_args)}) =>
                  LoadConfigChecks(d).class # fn_result[1].class

\* C12: a site root that is missing or no directory raises
\* NotADirectoryError with the site root path; a missing site.toml raises
\* FileNotFoundError with a message that names no path; a malformed
\* site.toml raises the TOML decode error with no path; a missing required
\* directory raises FileNotFoundError with the path of the first missing
\* one of content, posts, pages, templates.  Missing site.toml and missing
\* directory share their kind; the other kinds are distinct.
C12_KindsOfConfigurationErrors ==
    LoadConfigDone =>
        LET r == fn_result[1]
            failure == FailureOf(fn_args)
        IN  /\ failure # "" => ~r.ok
            /\ failure = "site_root" =>
                  r.class = "NotADirectoryError" /\ r.path = Some("site_root")
            /\ failure = "toml_missing" =>
                  r.class = "FileNotFoundError" /\ r.path = None
            /\ failure = "toml_malformed" =>
                  r.class = "TOMLDecodeError" /\ r.path = None
            /\ failure = "directory_missing" =>
                  /\ r.class = "FileNotFoundError"
                  /\ r.path # None
                  /\ r.path[1] \notin fn_args.dirs
                  /\ \A k, j \in 1..Len(RequiredDirs) :
                        (RequiredDirs[k] = r.path[1] /\ j < k) =>
                            RequiredDirs[j] \in fn_args.dirs

\* load_config raised for a site whose pages directory is missing
C12_Witness ==
    /\ LoadConfigDone /\ ~fn_result[1].ok
    /\ fn_result[1].path = Some("pages")
    /\ "templates" \notin fn_args.dirs

----------------------------------------------------------------------------
(* C13 *)

\* C13: load_config makes every check before it creates anything: when it
\* raises, it has created no directory; when it returns, the static and the
\* output directory exist, every directory and file that was there is
\* still there and nothing else was added, and a second call returns the
\* same and changes nothing.
C13_ChecksBeforeCreation ==
    LoadConfigDone =>
        LET r == fn_result[1]
        IN  /\ ~r.ok => r.disk = fn_args
            /\ r.ok =>
                  /\ FailureOf(fn_args) = ""
                  /\ CreatedDirs \subseteq r.disk.dirs
                  /\ r.disk.dirs = fn_args.dirs \cup CreatedDirs
                  /\ r.disk.files = fn_args.files
                  /\ r.disk.root = fn_args.root /\ r.disk.toml = fn_args.toml
                  /\ LoadConfigChecks(r.disk).ok
                  /\ LoadConfigChecks(r.disk).disk = r.disk

----------------------------------------------------------------------------
(* C14 *)

\* _merge_dicts was called and has returned
MergeDone == fn_name = "_merge_dicts" /\ fn_result # None

RECURSIVE MergedAsStated(_, _)
\* the merge of two tables as C14 gives it: the union of the keys; two
\* tables under one key merged; otherwise the user's value when there is
\* one and the default value when there is none
MergedAsStated(default, user) ==
    [key \in DOMAIN default \cup DOMAIN user |->
        IF key \in DOMAIN default /\ key \in DOMAIN user
           /\ default[key].table /\ user[key].table
        THEN Table(MergedAsStated(default[key].of, user[key].of))
        ELSE IF key \in DOMAIN user THEN user[key]
        ELSE default[key]]

\* C14: the keys of _merge_dicts(default, user) are the union of both key
\* sets; a key whose two values are tables has their recursive merge; any
\* other key of user has the user's value; a key of default alone keeps the
\* default value; neither input tree is modified; merging an empty user
\* tree yields a tree equal to the defaults.
C14_MergeDicts ==
    MergeDone =>
        LET r      == fn_result[1]
            merged == LoadTree(r.after, r.result)
        IN  /\ DOMAIN merged = DOMAIN fn_args.base \cup DOMAIN fn_args.override
            /\ merged = MergedAsStated(fn_args.base, fn_args.override)
            /\ \A id \in 1..Len(r.before) : r.after[id] = r.before[id]
            /\ LoadTree(r.after, r.base) = fn_args.base
            /\ LoadTree(r.after, r.override) = fn_args.override
            /\ r.result \notin {r.base, r.override}
            /\ DOMAIN fn_args.override = {} => merged = fn_args.base

\* a merge in which one key has a table on both sides, with a key of its
\* own on each, and another key has a table replaced by a scalar
C14_Witness ==
    /\ MergeDone
    /\ DOMAIN fn_args.base = {"a", "b"} /\ DOMAIN fn_args.override = {"a", "b"}
    /\ fn_args.base["a"] = Table(("a" :> Leaf(1)))
    /\ fn_args.override["a"] = Table(("b" :> Leaf(2)))
    /\ fn_args.base["b"].table /\ ~fn_args.override["b"].table

----------------------------------------------------------------------------
(* C15 *)

\* parse_front_matter_and_body was called and has returned or raised
ParseDone == fn_name = "parse_front_matter_and_body" /\ fn_result # None

\* the first line of the text is a fence and a later line is one too
FenceClosed(text) ==
    /\ text # <<>> /\ IsFence(text[1])
    /\ \E i \in 2..Len(text) : IsFence(text[i])

\* the first fence line after the first line
FirstLaterFence(text) ==
    CHOOSE i \in 2..Len(text) :
        IsFence(text[i]) /\ \A j \in 2..(i - 1) : ~IsFence(text[j])

\* the key/value pairs written on the lines
PairsOn(lines) ==
    {TomlPairs[Strip(lines[k])[1]] :
        k \in {j \in 1..Len(lines) : Len(Strip(lines[j])) = 1
                                     /\ Strip(lines[j])[1] \in DOMAIN TomlPairs}}

\* the lines are a table: key/value pairs and blank lines, no key twice
WritesTable(lines) ==
    /\ \A k \in 1..Len(lines) :
          IsBlank(lines[k]) \/ (Len(Strip(lines[k])) = 1
                                /\ Strip(lines[k])[1] \in DOMAIN TomlPairs)
    /\ \A j, k \in 1..Len(lines) :
          (j # k /\ ~IsBlank(lines[j]) /\ ~IsBlank(lines[k]))
              => TomlPairs[Strip(lines[j])[1]][1] # TomlPairs[Strip(lines[k])[1]][1]

\* the table the lines write
TableOn(lines) ==
    [key \in {pair[1] : pair \in PairsOn(lines)} |->
        (CHOOSE pair \in PairsOn(lines) : pair[1] = key)[2]]

\* C15: when the first line is not a +++ fence, or no later line is one,
\* parse_front_matter_and_body returns empty metadata and the whole text as
\* body without raising, whatever follows an unclosed fence; otherwise the
\* metadata is the table written strictly between the first line and the
\* first later fence line, and the body is the text after that fence line
\* with at most one leading blank line removed.
C15_FrontMatterAndBody ==
    ParseDone =>
        LET text == fn_args
            r    == fn_result[1]
        IN  IF ~FenceClosed(text)
            THEN ~r.raised /\ DOMAIN r.metadata = {} /\ r.body = text
            ELSE LET c       == FirstLaterFence(text)
                     between == SubSeq(text, 2, c - 1)
                     rest    == SubSeq(text, c + 1, Len(text))
                 IN  WritesTable(between) =>
                        /\ ~r.raised
                        /\ r.metadata = TableOn(between)
                        /\ IF rest # <<>> /\ IsBlank(rest[1])
                           THEN r.body \in {rest, Tail(rest)}
                           ELSE r.body = rest

\* a text with one key between its fences and two blank lines after them:
\* the metadata has the key and the body still has one blank line
C15_Witness ==
    /\ ParseDone
    /\ Len(fn_args) = 5 /\ FenceClosed(fn_args) /\ FirstLaterFence(fn_args) = 3
    /\ IsBlank(fn_args[4]) /\ IsBlank(fn_args[5])
    /\ ~fn_result[1].raised
    /\ DOMAIN fn_result[1].metadata = {"a"}
    /\ Len(fn_result[1].body) = 1

----------------------------------------------------------------------------
(* C16 *)

\* copy_static_tree was called and has returned
CopyDone == fn_name = "copy_static_tree" /\ fn_result # None

\* the files of a tree below a directory, by their paths relative to it
Below(fs, dir) ==
    {SubSeq(p, Len(dir) + 1, Len(p)) : p \in {q \in DOMAIN fs : IsPrefix(dir, q)}}

\* C16: after copy_static_tree with an existing source directory the output
\* static tree contains exactly the files of the source, with their
\* contents, and no file that was there before and is not in the source;
\* with a source that is missing or no directory the output static tree
\* is unchanged.
C16_CopyReplacesTree ==
    CopyDone =>
        LET src   == fn_args.static_dir
            after == fn_result[1]
        IN  IF src.kind = "dir"
            THEN /\ Below(after, OutputStatic) = DOMAIN src.tree
                 /\ \A f \in DOMAIN src.tree : after[OutputStatic \o f] = src.tree[f]
            ELSE /\ Below(after, OutputStatic) = Below(fn_args.fs, OutputStatic)
                 /\ \A p \in DOMAIN fn_args.fs : after[p] = fn_args.fs[p]

\* a copy over an output static tree that had a file the source has not and
\* a file the source has too
C16_Witness ==
    /\ CopyDone
    /\ fn_args.static_dir.kind = "dir"
    /\ DOMAIN fn_args.static_dir.tree = {<<"a.css">>, <<"css", "style.css">>}
    /\ {<<"output", "static", "a.css">>, <<"output", "static", "old", "old.txt">>}
          \subseteq DOMAIN fn_args.fs
    /\ <<"output", "static", "old", "old.txt">> \notin DOMAIN fn_result[1]
    /\ fn_result[1][<<"output", "static", "a.css">>] = Contents("new")

----------------------------------------------------------------------------
(* C17 *)

\* the second of two builds in a row has finished
SecondDone == pc = "done" /\ first_pass # None

\* a written file without the time of the build
WithoutTime(file) ==
    IF file.template = "search_docs.json"
    THEN [file EXCEPT !.context.generated_at = 0]
    ELSE file

\* C17: the second of two build_site runs over the same content and
\* configuration, into the output directory the first has filled, does not
\* raise and leaves the same files with the same contents as the first:
\* search_terms.json, sitemap.xml and the feed identical, search_docs.json
\* identical except for generated_at.
C17_BuildTwiceSameArtifacts ==
    /\ first_pass # None => pc # "raised"
    /\ SecondDone =>
          /\ DOMAIN written = DOMAIN first_pass[1]
          /\ \A p \in DOMAIN written :
                WithoutTime(written[p]) = WithoutTime(first_pass[1][p])
          /\ \A p \in DOMAIN written :
                written[p].template \in {"search_terms.json", "sitemap.xml", "feed.xml"}
                    => written[p] = first_pass[1][p]

\* a second build with the search and the sitemap on has finished a second
\* later than the first: search_docs.json differs in generated_at only
C17_Witness ==
    /\ SecondDone
    /\ SearchEnabled(config) /\ SitemapEnabled(config)
    /\ Len(posts) = 2
    /\ SitemapPath(config) \in DOMAIN written
    /\ \E p \in DOMAIN written :
          /\ written[p].template = "search_docs.json"
          /\ written[p].context.generated_at # first_pass[1][p].context.generated_at

----------------------------------------------------------------------------
(* C18 *)

\* a path setting was resolved: the resolution has returned or raised
ResolveDone == fn_name = "resolve_path" /\ fn_result # None

\* the documented defaults
DefaultPaths ==
    ("search.output_dir" :> <<"assets", "search">>) @@
    ("search.page_path" :> <<"search", "index.html">>) @@
    ("sitemap.output" :> <<"sitemap.xml">>)

\* the value is missing, empty or blank
NoPathGiven(raw) == raw.kind = "none" \/ (raw.kind = "str" /\ Strip(raw.text) = <<>>)

\* C18: the resolution of search.output_dir, search.page_path,
\* sitemap.output, feeds.rss_output and feeds.atom_output raises or yields a
\* relative path of at least one segment, none of them "..", with a search
\* path's backslashes taken as separators; a missing or empty search or
\* sitemap path yields the documented default.
C18_OutputPathsStayInside ==
    ResolveDone =>
        LET r == fn_result[1]
        IN  /\ r.ok =>
                /\ r.path # <<>>
                /\ \A k \in DOMAIN r.path : r.path[k] \notin {"..", ".", ""}
                /\ \A k \in DOMAIN r.segments : \A j \in DOMAIN r.segments[k] :
                      /\ r.segments[k][j] # "/"
                      /\ fn_args.setting \in {"search.output_dir", "search.page_path"}
                            => r.segments[k][j] # "\\"
            /\ (fn_args.setting \in DOMAIN DefaultPaths /\ NoPathGiven(fn_args.raw))
                  => r.ok /\ r.path = DefaultPaths[fn_args.setting]

\* a search path written with a backslash resolves to two segments
C18_Witness ==
    /\ ResolveDone
    /\ fn_args.setting = "search.output_dir"
    /\ fn_args.raw = RawStr(<<".", "/", "a", "\\">>)
    /\ fn_result[1].ok
    /\ fn_result[1].path = <<"a">>

----------------------------------------------------------------------------
(* C19 *)

\* the URLs the build collects for the sitemap as C19 lists them: the index
\* pages, the posts built that are no drafts, the pages (the search page is
\* one when the search is on), /tags/ and the tag pages
CollectedUrls ==
    LET sm == config.sitemap
    IN  (IF Get(sm, "include_index", TRUE)
         THEN {<<"">>} \cup {<<"page", ToString(k), "">> :
                             k \in 2..TotalPages(Len(posts), PostsPerPage(config.build))}
         ELSE {})
        \cup (IF Get(sm, "include_posts", TRUE)
              THEN {p.url : p \in {q \in Range(posts) : ~q.draft}} ELSE {})
        \cup (IF Get(sm, "include_pages", TRUE)
              THEN {g.url : g \in Range(pages)}
                   \cup (IF SearchEnabled(config) THEN {SearchPageUrl(config)} ELSE {})
              ELSE {})
        \cup (IF Get(sm, "include_tags", TRUE)
              THEN {<<"tags", "">>} \cup
                   {_normalize_path(<<"tags", _slugify_tag(t), "">>) :
                        t \in UNION {Range(p.tags) : p \in Range(posts)}}
              ELSE {})

\* the collected URLs no exclude pattern matches, a pattern that is empty
\* or blank being no pattern
ListedUrls ==
    {u \in CollectedUrls :
        ~_is_excluded(u, _normalize_patterns(Get(config.sitemap, "exclude_paths", <<>>)))}

\* the posts whose entries carry a date
DatedPosts ==
    {p \in Range(posts) : ~p.draft /\ Get(config.sitemap, "include_posts", TRUE)}

\* C19: with the sitemap enabled, the sitemap.xml of a finished build has
\* exactly one <url> for each distinct collected URL that is not excluded,
\* each under the normalised site URL, in strictly increasing order of the
\* absolute URL, with a lastmod exactly for the entries of posts, which carry
\* their date; with the sitemap disabled no entry is collected and no
\* sitemap file is written.
C19_SitemapContents ==
    /\ (pc = "done" /\ SitemapEnabled(config)) =>
          /\ SitemapPath(config) \in FilesOf("sitemap.xml")
          /\ LET urls == written[SitemapPath(config)].context
             IN  /\ {urls[i].loc.path : i \in DOMAIN urls} = ListedUrls
                 /\ Len(urls) = Cardinality(ListedUrls)
                 /\ \A i \in DOMAIN urls :
                       /\ urls[i].loc.base = RStrip(Strip(config.site["url"]), {"/"})
                       /\ urls[i].loc.base # <<>>
                       /\ IF \E p \in DatedPosts : p.url = urls[i].loc.path
                          THEN \E p \in DatedPosts :
                                  p.url = urls[i].loc.path /\ urls[i].lastmod = Some(p.date)
                          ELSE urls[i].lastmod = None
                 /\ \A i, j \in DOMAIN urls :
                       i < j => LexLess(UrlText(urls[i].loc.path), UrlText(urls[j].loc.path))
    /\ (pc \in {"rendered", "done"} /\ ~SitemapEnabled(config)) =>
          /\ sitemap_entries = <<>>
          /\ FilesOf("sitemap.xml") = {}

\* a sitemap with the root, a second index page, a post with its date, a
\* the search page and a tag page, written in another order than they were collected
\* in, and with a collected URL excluded
C19_Witness ==
    /\ pc = "done" /\ SitemapEnabled(config)
    /\ ListedUrls # CollectedUrls
    /\ LET urls == written[SitemapPath(config)].context
       IN  /\ Len(urls) >= 5
           /\ \E i \in DOMAIN urls : urls[i].lastmod # None
           /\ \E i \in DOMAIN urls : urls[i].loc.path = <<"">>
           /\ \E i \in DOMAIN urls : urls[i].loc.path = <<"page", "2", "">>
           /\ urls # SitemapDocument_unsorted(sitemap_entries, config.site["url"],
                                              config.sitemap["exclude_paths"])

----------------------------------------------------------------------------
(* C20 *)

\* _collect_entries was called and has returned
CollectDone == fn_name = "_collect_entries" /\ fn_result # None

\* the entries of the eligible posts and pages of the call
EligibleEntries ==
    LET st == fn_args.settings
    IN  {FeedEntry(st.site_url, p.url, p.date) :
            p \in {q \in Range(fn_args.posts) :
                      /\ st.include_posts
                      /\ (~q.draft \/ st.include_drafts)
                      /\ (st.include_tags = {} \/ Range(q.tags) \cap st.include_tags # {})}}
        \cup
        {FeedEntry(st.site_url, g.url, g.date[1]) :
            g \in {h \in Range(fn_args.pages) :
                      st.include_pages /\ HasAttr(h, "date") /\ h.date # None}}

\* a comes before b in the order (published descending, URL descending)
Before(a, b) ==
    \/ a.published > b.published
    \/ a.published = b.published /\ LexLess(UrlText(b.url.path), UrlText(a.url.path))

\* C20: _collect_entries returns the first max_items of the eligible entries
\* in the order (published descending, URL descending): at most max_items
\* entries, each eligible and none twice, in that order, and no eligible
\* entry left out comes before one returned or is left out while there is
\* room; a page that has no date is not eligible and the call returns.
C20_CollectEntries ==
    CollectDone =>
        LET got == fn_result[1].entries
            max == fn_args.settings.max_items
        IN  /\ fn_result[1].error = ""
            /\ Len(got) <= max
            /\ Range(got) \subseteq EligibleEntries
            /\ Cardinality(Range(got)) = Len(got)
            /\ Len(got) = IF Cardinality(EligibleEntries) < max
                          THEN Cardinality(EligibleEntries) ELSE max
            /\ \A i, j \in DOMAIN got : i < j => Before(got[i], got[j])
            /\ \A e \in EligibleEntries \ Range(got) :
                  \A i \in DOMAIN got : Before(got[i], e)

----------------------------------------------------------------------------
(* C21 *)

\* build_site's call of build_assets has returned
SearchDone == fn_name = "build_assets" /\ fn_result # None

\* the tokens of a document: the keys of its token weights
DocTokens(record) == DOMAIN record.token_weights

\* in how many of the documents a token occurs
DocFrequency(records, t) ==
    Cardinality({k \in DOMAIN records : t \in DocTokens(records[k])})

\* the postings of a token in the terms index, none when it is not a key
PostingsIn(terms, t) ==
    IF \E i \in DOMAIN terms : terms[i].token = t
    THEN (CHOOSE e \in Range(terms) : e.token = t).postings
    ELSE <<>>

\* the tokens that are keys of the terms index
KeysOf(terms) == {terms[i].token : i \in DOMAIN terms}

\* the three conditions under which a token of frequency df >= 1 is dropped
DropStated(df, doc_count, settings) ==
    \/ df <= settings.drop_df_min
    \/ df = doc_count
    \/ df * 100 >= settings.drop_df_ratio * doc_count

\* C21: should_drop_token(df, doc_count) for 1 <= df is true exactly when
\* df <= drop_df_min, df = doc_count or df / doc_count >= drop_df_ratio; a
\* key of the terms index is a token should_drop_token is false for, so a
\* token of every document is no key; every key occurs in a document and has
\* postings only for documents that contain it.
C21_DropRules ==
    SearchDone =>
        LET settings  == SearchSettings(fn_args.search)
            records   == fn_result[1].records
            terms     == fn_result[1].terms
            doc_count == Len(records)
        IN  /\ \A df \in 1..doc_count :
                  should_drop_token(df, doc_count, settings)
                      <=> DropStated(df, doc_count, settings)
            /\ \A t \in KeysOf(terms) :
                  /\ ~should_drop_token(DocFrequency(records, t), doc_count, settings)
                  /\ DocFrequency(records, t) >= 1
                  /\ DocFrequency(records, t) < doc_count
                  /\ \A p \in Range(PostingsIn(terms, t)) :
                        \E k \in DOMAIN records :
                            /\ records[k].document.id = p.doc
                            /\ t \in DocTokens(records[k])

\* four documents: a token of all four and a token of three of them (three
\* quarters is above the default ratio) are no keys, a token of one is
C21_Witness ==
    /\ SearchDone
    /\ Len(fn_result[1].records) = 4
    /\ SearchSettings(fn_args.search).drop_df_ratio = 70
    /\ \E t, u, v \in UNION {DocTokens(r) : r \in Range(fn_result[1].records)} :
          /\ DocFrequency(fn_result[1].records, t) = 4
          /\ DocFrequency(fn_result[1].records, u) = 3
          /\ DocFrequency(fn_result[1].records, v) = 1
          /\ KeysOf(fn_result[1].terms) = {v}

----------------------------------------------------------------------------
(* C22 *)

\* the call of _deduplicate_entries has returned
DedupDone == fn_name = "_deduplicate_entries" /\ fn_result # None

\* a path with one leading slash and no slash repeated
IsNormalPath(path) ==
    /\ path # <<>> /\ path[1] = "/"
    /\ \A k \in 1..(Len(path) - 1) : ~(path[k] = "/" /\ path[k + 1] = "/")

\* the places of the input whose path normalizes to path
Occurrences(entries, path) ==
    {i \in DOMAIN entries : NormalizePathText(entries[i].path) = path}

\* the smallest element of a non-empty set of numbers
Least(S) == CHOOSE i \in S : \A j \in S : i <= j

\* C22: _deduplicate_entries returns one entry per normalized path of the
\* input (one leading slash, no repeated slash; normalizing a normalized
\* path changes nothing), in the order of the first occurrences, with the
\* lastmod of the first occurrence that has one, or none.
C22_DeduplicateEntries ==
    DedupDone =>
        LET entries == fn_args
            deduped == fn_result[1]
        IN  /\ \A i, j \in DOMAIN deduped : deduped[i].path = deduped[j].path => i = j
            /\ {deduped[i].path : i \in DOMAIN deduped}
                    = {NormalizePathText(entries[i].path) : i \in DOMAIN entries}
            /\ \A i \in DOMAIN deduped :
                  /\ IsNormalPath(deduped[i].path)
                  /\ NormalizePathText(deduped[i].path) = deduped[i].path
            /\ \A i, j \in DOMAIN deduped :
                  i < j => Least(Occurrences(entries, deduped[i].path))
                               < Least(Occurrences(entries, deduped[j].path))
            /\ \A i \in DOMAIN deduped :
                  LET dated == {k \in Occurrences(entries, deduped[i].path) :
                                    entries[k].lastmod # None}
                  IN  deduped[i].lastmod =
                          IF dated = {} THEN None ELSE entries[Least(dated)].lastmod

\* three entries of one path written in three ways, the first without a
\* lastmod, the two others with different ones
C22_Witness ==
    /\ DedupDone
    /\ Len(fn_args) = 3 /\ Len(fn_result[1]) = 1
    /\ Cardinality({fn_args[i].path : i \in DOMAIN fn_args}) = 3
    /\ fn_args[1].lastmod = None
    /\ fn_args[2].lastmod = Some(1) /\ fn_args[3].lastmod = Some(2)
    /\ fn_result[1][1].lastmod = Some(1)

----------------------------------------------------------------------------
(* C23 *)

\* the tokens whose posting list holds the document of a record
PostedTokens(terms, record) ==
    {t \in KeysOf(terms) :
        \E p \in Range(PostingsIn(terms, t)) : p.doc = record.document.id}

\* the tokens of a record that are scored: of positive weight and not dropped
SurvivingTokens(records, record, settings) ==
    {t \in DocTokens(record) :
        /\ record.token_weights[t] > 0
        /\ ~DropStated(DocFrequency(records, t), Len(records), settings)}

\* the score of a surviving token of a record, before it is rounded
ScoreIn(records, record, t, settings) ==
    TokenScore(record.token_weights[t], DocFrequency(records, t), Len(records),
               record.body_token_count, settings).score

\* C23: a document is in the posting lists of at most max_terms_per_doc >= 1
\* tokens; these are the first max_terms_per_doc of its surviving tokens by
\* (score descending, token ascending), so that no discarded token has a
\* higher score than a kept one.
C23_TopTermsPerDocument ==
    SearchDone =>
        LET settings == SearchSettings(fn_args.search)
            records  == fn_result[1].records
            terms    == fn_result[1].terms
        IN  /\ settings.max_terms_per_doc >= 1
            /\ \A r \in Range(records) :
                  LET kept      == PostedTokens(terms, r)
                      surviving == SurvivingTokens(records, r, settings)
                  IN  /\ kept \subseteq surviving
                      /\ Cardinality(kept)
                            = Min(settings.max_terms_per_doc, Cardinality(surviving))
                      /\ \A t \in kept : \A u \in surviving \ kept :
                            \/ ScoreIn(records, r, t, settings)
                                  > ScoreIn(records, r, u, settings)
                            \/ /\ ScoreIn(records, r, t, settings)
                                     = ScoreIn(records, r, u, settings)
                               /\ LexLess(t, u)

\* max_terms_per_doc = 0 is read as 1, and a document has two surviving
\* tokens of the same score: the first of the two by name is the one it is
\* posted for
C23_Witness ==
    /\ SearchDone
    /\ fn_args.search = [enabled |-> TRUE, max_terms_per_doc |-> 0]
    /\ \E r \in Range(fn_result[1].records) :
          LET settings  == SearchSettings(fn_args.search)
              surviving == SurvivingTokens(fn_result[1].records, r, settings)
          IN  \E t, u \in surviving :
                 /\ PostedTokens(fn_result[1].terms, r) = {t}
                 /\ LexLess(t, u)
                 /\ ScoreIn(fn_result[1].records, r, t, settings)
                       = ScoreIn(fn_result[1].records, r, u, settings)

----------------------------------------------------------------------------
(* C24 *)

\* the record of a document id
RecordOf(records, id) == CHOOSE r \in Range(records) : r.document.id = id

\* the keys ascending, no posting list empty, no document twice in one
KeysAndListsInOrder(terms) ==
    /\ \A i, j \in DOMAIN terms : i < j => LexLess(terms[i].token, terms[j].token)
    /\ \A i \in DOMAIN terms :
          /\ terms[i].postings # <<>>
          /\ \A a, b \in DOMAIN terms[i].postings :
                terms[i].postings[a].doc = terms[i].postings[b].doc => a = b

\* C24 as stated: keys ascending, posting lists non-empty and without a
\* repeated document, each ordered by (emitted score descending, document id
\* ascending).
C24_OrderedByEmittedScore ==
    SearchDone =>
        LET terms == fn_result[1].terms
        IN  /\ KeysAndListsInOrder(terms)
            /\ \A i \in DOMAIN terms : \A a, b \in DOMAIN terms[i].postings :
                  a < b =>
                     \/ terms[i].postings[a].score > terms[i].postings[b].score
                     \/ /\ terms[i].postings[a].score = terms[i].postings[b].score
                        /\ terms[i].postings[a].doc < terms[i].postings[b].doc

\* C24, amended: keys ascending, posting lists non-empty and without a
\* repeated document, each ordered by (score before rounding descending,
\* document id ascending); the emitted scores never increase along a list.
C24_OrderedByScore ==
    SearchDone =>
        LET settings == SearchSettings(fn_args.search)
            records  == fn_result[1].records
            terms    == fn_result[1].terms
            raw(t, p) == ScoreIn(records, RecordOf(records, p.doc), t, settings)
        IN  /\ KeysAndListsInOrder(terms)
            /\ \A i \in DOMAIN terms : \A a, b \in DOMAIN terms[i].postings :
                  a < b =>
                     /\ terms[i].postings[a].score >= terms[i].postings[b].score
                     /\ \/ raw(terms[i].token, terms[i].postings[a])
                              > raw(terms[i].token, terms[i].postings[b])
                        \/ /\ raw(terms[i].token, terms[i].postings[a])
                                 = raw(terms[i].token, terms[i].postings[b])
                           /\ terms[i].postings[a].doc < terms[i].postings[b].doc

\* two postings of a token are written with the same score, the one of the
\* larger document id first: its score was the higher before rounding
C24_Witness ==
    /\ SearchDone
    /\ \E e \in Range(fn_result[1].terms) : \E a, b \in DOMAIN e.postings :
          /\ a < b
          /\ e.postings[a].score = e.postings[b].score
          /\ e.postings[a].doc > e.postings[b].doc
          /\ ScoreIn(fn_result[1].records, RecordOf(fn_result[1].records, e.postings[a].doc),
                     e.token, SearchSettings(fn_args.search))
                > ScoreIn(fn_result[1].records,
                          RecordOf(fn_result[1].records, e.postings[b].doc),
                          e.token, SearchSettings(fn_args.search))

----------------------------------------------------------------------------
(* C25 *)

\* the ids are 0, 1, ... in array order, doc_count is the number of
\* documents, the posts come before the pages, the pages are in (slug,
\* lowercased title) order, and every posting names one of the documents
DocsNumberedPagesSorted(payload, args) ==
    LET docs == payload.docs.docs
        np   == Len(args.posts)
        ng   == Len(args.pages)
    IN  /\ payload.docs.doc_count = Len(docs)
        /\ Len(docs) = np + ng
        /\ \A k \in DOMAIN docs :
              /\ docs[k].id = k - 1
              /\ docs[k].kind = IF k <= np THEN "post" ELSE "page"
        /\ \E g \in Orderings(ng) :
              /\ \A k \in 1..ng :
                    /\ docs[np + k].url = args.pages[g[k]].url
                    /\ docs[np + k].title = args.pages[g[k]].title
              /\ \A k, l \in 1..ng :
                    k < l => ~PageBefore(args.pages[g[l]], args.pages[g[k]])
        /\ \A e \in Range(payload.terms) : \A p \in Range(e.postings) :
              \E k \in DOMAIN docs : docs[k].id = p.doc

\* C25 as stated: the documents are numbered 0.. in array order, posts
\* before pages, the posts in the order of their discovery, the pages by
\* (slug, lowercased title); every posting names one of the documents.
C25_PostsInDiscoveryOrder ==
    SearchDone =>
        /\ DocsNumberedPagesSorted(fn_result[1], fn_args)
        /\ \A k \in DOMAIN fn_args.posts :
              /\ fn_result[1].docs.docs[k].url = fn_args.posts[k].url
              /\ fn_result[1].docs.docs[k].title = fn_args.posts[k].title

\* C25, amended: the documents are numbered 0.. in array order, posts before
\* pages, the posts in the order build_site has put them in (date
\* descending, posts of one date in the order of their discovery), the pages
\* by (slug, lowercased title); every posting names one of the documents.
C25_PostsInBuildOrder ==
    SearchDone =>
        /\ DocsNumberedPagesSorted(fn_result[1], fn_args)
        /\ \E f \in Orderings(Len(fn_args.posts)) :
              /\ \A k \in DOMAIN fn_args.posts :
                    /\ fn_result[1].docs.docs[k].url = fn_args.posts[f[k]].url
                    /\ fn_result[1].docs.docs[k].title = fn_args.posts[f[k]].title
              /\ \A k, l \in DOMAIN fn_args.posts :
                    k < l =>
                       \/ fn_args.posts[f[k]].date > fn_args.posts[f[l]].date
                       \/ /\ fn_args.posts[f[k]].date = fn_args.posts[f[l]].date
                          /\ f[k] < f[l]

\* the older of two posts is discovered first and is the second document;
\* two pages of one slug are discovered in the order of their titles as
\* written ("Bb", "aa") and listed in the order of the lowercased titles;
\* the terms index has postings
C25_Witness ==
    /\ SearchDone
    /\ Len(fn_args.posts) = 2 /\ Len(fn_args.pages) = 2
    /\ fn_args.posts[1].date < fn_args.posts[2].date
    /\ fn_result[1].docs.docs[1].url = fn_args.posts[2].url
    /\ fn_result[1].docs.docs[2].url = fn_args.posts[1].url
    /\ fn_args.pages[1].slug = fn_args.pages[2].slug
    /\ LexLess(fn_args.pages[1].title, fn_args.pages[2].title)
    /\ fn_result[1].docs.docs[3].title = fn_args.pages[2].title
    /\ fn_result[1].docs.docs[4].title = fn_args.pages[1].title
    /\ fn_result[1].terms # <<>>

----------------------------------------------------------------------------
(* C26 *)

\* where the posting of a document is in the posting list of a token, 0
\* when it has none
PlaceOf(terms, t, id) ==
    LET postings == PostingsIn(terms, t)
    IN  IF \E j \in DOMAIN postings : postings[j].doc = id
        THEN CHOOSE j \in DOMAIN postings : postings[j].doc = id
        ELSE 0

\* the score a posting is written with
EmittedScore(terms, t, id) == PostingsIn(terms, t)[PlaceOf(terms, t, id)].score

\* two documents a token is posted for with the same weight and different
\* numbers of body tokens, a having fewer
SameWeightFewerTokens(payload, t, a, b) ==
    /\ a # b
    /\ PlaceOf(payload.terms, t, a.document.id) > 0
    /\ PlaceOf(payload.terms, t, b.document.id) > 0
    /\ a.token_weights[t] = b.token_weights[t]
    /\ a.body_token_count < b.body_token_count

\* the number the score is divided by the square root of
EffectiveLength(record) == IF record.body_token_count > 0 THEN record.body_token_count ELSE 1

\* C26 as stated: of two such documents the one with fewer body tokens has
\* the strictly higher score and is listed first when normalize_by_doc_len
\* is set; without it the scores are equal and the smaller id is first.
C26_ShorterDocumentFirst ==
    SearchDone =>
        LET payload  == fn_result[1]
            settings == SearchSettings(fn_args.search)
        IN  \A t \in KeysOf(payload.terms) : \A a, b \in Range(payload.records) :
               SameWeightFewerTokens(payload, t, a, b) =>
                  IF settings.normalize_by_doc_len
                  THEN /\ EmittedScore(payload.terms, t, a.document.id)
                             > EmittedScore(payload.terms, t, b.document.id)
                       /\ PlaceOf(payload.terms, t, a.document.id)
                             < PlaceOf(payload.terms, t, b.document.id)
                  ELSE /\ EmittedScore(payload.terms, t, a.document.id)
                             = EmittedScore(payload.terms, t, b.document.id)
                       /\ (a.document.id < b.document.id
                             <=> PlaceOf(payload.terms, t, a.document.id)
                                    < PlaceOf(payload.terms, t, b.document.id))

\* C26, amended: without normalize_by_doc_len, and with it when the two
\* documents have the same number of body tokens once 0 is counted as 1, the
\* scores are equal and the smaller id is first; otherwise the document with
\* fewer body tokens has the strictly higher score and is listed first when
\* the score is positive, the strictly lower score and is listed last when
\* it is negative.
C26_ShorterFirstWhenPositive ==
    SearchDone =>
        LET payload  == fn_result[1]
            settings == SearchSettings(fn_args.search)
            raw(t, r) == ScoreIn(payload.records, r, t, settings)
            place(t, r) == PlaceOf(payload.terms, t, r.document.id)
            emitted(t, r) == EmittedScore(payload.terms, t, r.document.id)
        IN  \A t \in KeysOf(payload.terms) : \A a, b \in Range(payload.records) :
               SameWeightFewerTokens(payload, t, a, b) =>
                  IF ~settings.normalize_by_doc_len
                     \/ EffectiveLength(a) = EffectiveLength(b)
                  THEN /\ raw(t, a) = raw(t, b)
                       /\ emitted(t, a) = emitted(t, b)
                       /\ (a.document.id < b.document.id <=> place(t, a) < place(t, b))
                  ELSE /\ raw(t, a) # 0
                       /\ raw(t, a) > 0 =>
                             /\ raw(t, a) > raw(t, b)
                             /\ emitted(t, a) >= emitted(t, b)
                             /\ place(t, a) < place(t, b)
                       /\ raw(t, a) < 0 =>
                             /\ raw(t, a) < raw(t, b)
                             /\ emitted(t, a) <= emitted(t, b)
                             /\ place(t, a) > place(t, b)

\* with normalize_by_doc_len, a token of the same weight in a document of
\* one body token and in a document of two is posted for both with a
\* positive score, the shorter document first
C26_Witness ==
    /\ SearchDone
    /\ SearchSettings(fn_args.search).normalize_by_doc_len
    /\ \E t \in KeysOf(fn_result[1].terms) : \E a, b \in Range(fn_result[1].records) :
          /\ SameWeightFewerTokens(fn_result[1], t, a, b)
          /\ a.body_token_count = 1 /\ b.body_token_count = 2
          /\ EmittedScore(fn_result[1].terms, t, a.document.id)
                > EmittedScore(fn_result[1].terms, t, b.document.id)
          /\ EmittedScore(fn_result[1].terms, t, b.document.id) > 0
          /\ PlaceOf(fn_result[1].terms, t, a.document.id)
                < PlaceOf(fn_result[1].terms, t, b.document.id)

----------------------------------------------------------------------------
(* C27 *)

\* the summary of a post has been made for an accepted max_chars
SummaryDone ==
    /\ fn_name = "_post_summary" /\ fn_result # None
    /\ fn_result[1].ok /\ fn_result[1].summary # None

\* C27: for every max_chars >= 1 the summary of a feed entry has at most
\* max_chars characters: a text of at most max_chars characters is emitted
\* as it is, a longer one is cut and ends with "...".
C27_SummaryWithinMaxChars ==
    SummaryDone =>
        LET text    == Strip(fn_args.summary)
            emitted == fn_result[1].summary[1]
        IN  /\ fn_args.max_chars >= 1
            /\ Len(emitted) <= fn_args.max_chars
            /\ Len(text) <= fn_args.max_chars => emitted = text
            /\ Len(text) > fn_args.max_chars =>
                  /\ Len(emitted) >= 3
                  /\ SubSeq(emitted, Len(emitted) - 2, Len(emitted)) = Ellipsis

----------------------------------------------------------------------------
(* C28 *)

\* C28: whatever integer build.posts_per_page is, the page size build_site
\* paginates with is at least 1, and every post left after the draft filter
\* is listed on exactly one index page.
C28_EveryPostOnOneIndexPage ==
    pc = "done" =>
        /\ PostsPerPage(config.build) >= 1
        /\ \A p \in Range(posts) :
              Cardinality({f \in FilesOf("index.html") : p \in ListedOn(f)}) = 1

----------------------------------------------------------------------------
(* C29 *)

\* C29: whatever the tag names are, tags/index.html holds the tags index
\* when the build completes: no tag page is written to its path.
C29_TagsIndexKept ==
    pc = "done" =>
        /\ OutPath(config, <<"tags", INDEX_FILENAME>>) \in FilesOf("tags.html")
        /\ \A page \in Range(TagPages(config, _build_tag_index(posts))) :
              page.path # OutPath(config, <<"tags", INDEX_FILENAME>>)

----------------------------------------------------------------------------
(* C30 *)

\* C30: every file rendered before the static copy is there with its
\* rendered content when DONE is reported: the step from the end of the
\* rendering to DONE removes and changes none of them.
C30_StaticCopyKeepsRenderedFiles ==
    [][(pc = "rendered" /\ pc' = "done") =>
          \A f \in DOMAIN written :
              f \in DOMAIN written' /\ written'[f] = written[f]]_vars

============================================================================
